---- MODULE Spec2Model ----
(***************************************************************************)
(* A state-machine model of the fmod-test-bed audio facade (src/src/lib.rs) *)
(* running on the interop binding (src/src/wasmfmod.rs).  The middleware    *)
(* behind the boundary functions is the environment: every boundary call    *)
(* returns a status code chosen nondeterministically, and the middleware's  *)
(* own state (resident banks, listener attributes, instances) changes only  *)
(* when the status is 0.                                                    *)
(***************************************************************************)
EXTENDS Integers, Sequences, FiniteSets, TLC

\* ------------------------------------------------------------------ bounds
\* longest `buffers` slice handed to one load_bank_files_from_memory call
MaxBuffers == 2
\* cap on Len(event_names): event_names only ever grows
MaxNames == 3
\* cap on the number of banks resident in the middleware
MaxResident == 2
\* cap on the number of event instances the middleware has created
MaxInstances == 1

\* ------------------------------------------------------------------ inputs
None == <<>>
Some(x) == <<x>>

\* Vec2::ZERO and the Vec2 values the callers pass
ZERO == <<0, 0>>
Vec2s == {ZERO, <<1, 2>>, <<3, 4>>}

\* bank buffers (by content) and the event paths the middleware finds in each
Banks == {1, 2}
BankEvents(b) == IF b = 1 THEN <<"event:/a", "event:/b">> ELSE <<"event:/c">>
AssetIds == {1, 2}

\* event names a caller passes; "sfx/a" lacks the "event:/" prefix
EventNames == {"event:/a", "sfx/a"}
starts_with_event(event_name) ==
  event_name \in {"event:/a", "event:/b", "event:/c", "event:/Music/Level 02"}

\* status codes a boundary function may return: Ok, ErrInvalidHandle, and a
\* code outside the table of FMODResult
ErrCodes == {30, 99}
Status == {0} \cup ErrCodes

\* Status functions over the boundary calls of one operation, in call order.
\* The facade stops at the first failing call, so the statuses after a failure
\* are never consumed: at most one entry is a failure.
Oracles(n) ==
  {[k \in 1..n |-> 0]} \cup
  {[k \in 1..n |-> IF k = f THEN c ELSE 0] : f \in 1..n, c \in ErrCodes}

\* ------------------------------------------------------ wasmfmod.rs: results
\* enum FMODResult: the discriminant of every variant
FMODResult ==
  [Ok |-> 0, ErrBadCommand |-> 1, ErrChannelAlloc |-> 2, ErrChannelStolen |-> 3,
   ErrDMA |-> 4, ErrDSPConnection |-> 5, ErrDSPDontProcess |-> 6, ErrDSPFormat |-> 7,
   ErrDSPInUse |-> 8, ErrDSPNotFound |-> 9, ErrDSPPReserved |-> 10, ErrDSPSilence |-> 11,
   ErrDSPTtype |-> 12, ErrFileBad |-> 13, ErrFileCouldNotSeek |-> 14,
   ErrFileDiskEjected |-> 15, ErrFileEOF |-> 16, ErrFileEndOfData |-> 17,
   ErrFileNotFound |-> 18, ErrFormat |-> 19, ErrHeaderMismatch |-> 20, ErrHTTP |-> 21,
   ErrHTTPAccess |-> 22, ErrHTTPProxyAuth |-> 23, ErrHTTPServerError |-> 24,
   ErrHTTPTimeout |-> 25, ErrInitialization |-> 26, ErrInitialized |-> 27,
   ErrInternal |-> 28, ErrInvalidFloat |-> 29, ErrInvalidHandle |-> 30,
   ErrInvalidParam |-> 31, ErrInvalidPosition |-> 32, ErrInvalidSpeaker |-> 33,
   ErrInvalidSyncPOINT |-> 34, ErrInvalidThread |-> 35, ErrInvalidVector |-> 36,
   ErrMaxAudible |-> 37, ErrMemory |-> 38, ErrMemoryCantPoint |-> 39, ErrNeeds3D |-> 40,
   ErrNeedsHardware |-> 41, ErrNetConnect |-> 42, ErrNetSocketError |-> 43,
   ErrNetURL |-> 44, ErrNetWouldBlock |-> 45, ErrNotReady |-> 46,
   ErrOutputAllocated |-> 47, ErrOutputCreateBuffer |-> 48, ErrOutputDriverCall |-> 49,
   ErrOutputFormat |-> 50, ErrOutputInit |-> 51, ErrOutputNoDrivers |-> 52,
   ErrPlugin |-> 53, ErrPluginMissing |-> 54, ErrPluginResource |-> 55,
   ErrPluginVersion |-> 56, ErrRecord |-> 57, ErrReverbChannelGroup |-> 58,
   ErrReverbInstance |-> 59, ErrSubsounds |-> 60, ErrSubsoundAllocated |-> 61,
   ErrSubsoundCantMove |-> 62, ErrTagNotFound |-> 63, ErrTooManyChannels |-> 64,
   ErrTruncated |-> 65, ErrUnimplemented |-> 66, ErrUnitialized |-> 67,
   ErrUnsupported |-> 68, ErrVersion |-> 69, ErrEventAlreadyLoaded |-> 70,
   ErrEventLiveUpdateBusy |-> 71, ErrEventLiveUpdateMismatch |-> 72,
   ErrEventLiveUpdateTimeout |-> 73, ErrEventNotFound |-> 74, ErrStudioUnitialized |-> 75,
   ErrStudioNotLoaded |-> 76, ErrInvalidString |-> 77, ErrAlreadyLocked |-> 78,
   ErrNotLocked |-> 79, ErrRecordDisconnected |-> 80, ErrTooManySamples |-> 81,
   ErrUnknown |-> 82]

\* the arms `v => FMODResult::X` of from(value), as the variant of arm v + 1
FMODResult_arms ==
  <<"Ok", "ErrBadCommand", "ErrChannelAlloc", "ErrChannelStolen", "ErrDMA",
   "ErrDSPConnection", "ErrDSPDontProcess", "ErrDSPFormat", "ErrDSPInUse",
   "ErrDSPNotFound", "ErrDSPPReserved", "ErrDSPSilence", "ErrDSPTtype", "ErrFileBad",
   "ErrFileCouldNotSeek", "ErrFileDiskEjected", "ErrFileEOF", "ErrFileEndOfData",
   "ErrFileNotFound", "ErrFormat", "ErrHeaderMismatch", "ErrHTTP", "ErrHTTPAccess",
   "ErrHTTPProxyAuth", "ErrHTTPServerError", "ErrHTTPTimeout", "ErrInitialization",
   "ErrInitialized", "ErrInternal", "ErrInvalidFloat", "ErrInvalidHandle",
   "ErrInvalidParam", "ErrInvalidPosition", "ErrInvalidSpeaker", "ErrInvalidSyncPOINT",
   "ErrInvalidThread", "ErrInvalidVector", "ErrMaxAudible", "ErrMemory",
   "ErrMemoryCantPoint", "ErrNeeds3D", "ErrNeedsHardware", "ErrNetConnect",
   "ErrNetSocketError", "ErrNetURL", "ErrNetWouldBlock", "ErrNotReady",
   "ErrOutputAllocated", "ErrOutputCreateBuffer", "ErrOutputDriverCall", "ErrOutputFormat",
   "ErrOutputInit", "ErrOutputNoDrivers", "ErrPlugin", "ErrPluginMissing",
   "ErrPluginResource", "ErrPluginVersion", "ErrRecord", "ErrReverbChannelGroup",
   "ErrReverbInstance", "ErrSubsounds", "ErrSubsoundAllocated", "ErrSubsoundCantMove",
   "ErrTagNotFound", "ErrTooManyChannels", "ErrTruncated", "ErrUnimplemented",
   "ErrUnitialized", "ErrUnsupported", "ErrVersion", "ErrEventAlreadyLoaded",
   "ErrEventLiveUpdateBusy", "ErrEventLiveUpdateMismatch", "ErrEventLiveUpdateTimeout",
   "ErrEventNotFound", "ErrStudioUnitialized", "ErrStudioNotLoaded", "ErrInvalidString",
   "ErrAlreadyLocked", "ErrNotLocked", "ErrRecordDisconnected", "ErrTooManySamples">>

\* mutant: the last arm of the match is missing
FMODResult_variant_short(value) ==
  IF value \in 0..(Len(FMODResult_arms) - 2) THEN FMODResult_arms[value + 1]
  ELSE "ErrUnknown"

\* impl From<i32> for FMODResult: the variant; `_ => FMODResult::ErrUnknown`
FMODResult_variant(value) ==
  IF value \in 0..(Len(FMODResult_arms) - 1) THEN FMODResult_arms[value + 1]
  ELSE "ErrUnknown"

\* FMODResult::from(value) as i32: the discriminant of the variant
FMODResult_from(value) == FMODResult[FMODResult_variant(value)]

\* what an operation returned: Ok with its payload (an instance, a value), or
\* Error::Fmod { function, code, message }, or a panic
OkResult ==
  [kind |-> "Ok", function |-> "", code |-> 0, message |-> "", inst |-> 0,
   value |-> None]
OkInstance(i) == [OkResult EXCEPT !.inst = i]
PanicResult == [OkResult EXCEPT !.kind = "Panic"]
NoResult == [OkResult EXCEPT !.kind = "None"]

\* err_fmod!(function, code) wrapped in Err
err_fmod(function, code) ==
  [kind |-> "Err", function |-> function, code |-> code, message |-> "", inst |-> 0,
   value |-> None]

\* mutant: the error carries the status as it came, not the variant's discriminant
Binding_raw_code(function, status) ==
  IF FMODResult_from(status) = 0 THEN OkResult
  ELSE err_fmod(function, status)

\* match FMODResult::from(result.0) { Ok => Ok(..), err => Err(err_fmod!(name, err)) }
Binding(function, status) ==
  IF FMODResult_from(status) = 0 THEN OkResult
  ELSE err_fmod(function, FMODResult_from(status))

Studio_create(status) == Binding("Studio_System_Create", status)
Studio_initialize(status) == Binding("Studio_System_Initialize", status)
Studio_load_bank_memory(status) == Binding("Studio_System_LoadBankMemory", status)
Studio_unload_all(status) == Binding("Studio_System_UnloadAll", status)
Studio_get_event(status) == Binding("Studio_System_GetEvent", status)
Studio_set_listener_attributes(status) == Binding("Studio_System_Update", status)
Studio_update(status) == Binding("Studio_System_Update", status)
Bank_get_event_list(status) == Binding("Studio_Bank_GetEventList", status)
Bank_get_event_count(status) == Binding("Studio_Bank_GetEventCount", status)
EventDescription_get_path(status) == Binding("Studio_EventDescription_GetPath", status)
EventDescription_create_instance(status) ==
  Binding("Studio_EventDescription_CreateInstance", status)
EventInstance_start(status) == Binding("Studio_EventInstance_Start", status)
EventInstance_release(status) == Binding("Studio_EventInstance_Release", status)
EventInstance_set_3d_attributes(status) ==
  Binding("Studio_EventInstance_Set3DAttributes", status)

\* Every method of the binding: its wrapper type, the method, the boundary
\* function it calls, the
\* name it hands to err_fmod! on a status other than Ok (None: the method looks
\* at no status), and the number of payload values of the envelope it receives
Bindings ==
  {
   [wrapper |-> "Studio", method |-> "Studio::create",
    function |-> "Studio_System_Create",
    error |-> Some("Studio_System_Create"), payload |-> 1],
   [wrapper |-> "Studio", method |-> "Studio::initialize",
    function |-> "Studio_System_Initialize",
    error |-> Some("Studio_System_Initialize"), payload |-> 0],
   [wrapper |-> "Studio", method |-> "Studio::load_bank_memory",
    function |-> "Studio_System_LoadBankMemory",
    error |-> Some("Studio_System_LoadBankMemory"), payload |-> 1],
   [wrapper |-> "Studio", method |-> "Studio::unload_all",
    function |-> "Studio_System_UnloadAll",
    error |-> Some("Studio_System_UnloadAll"), payload |-> 0],
   [wrapper |-> "Studio", method |-> "Studio::get_event",
    function |-> "Studio_System_GetEvent",
    error |-> Some("Studio_System_GetEvent"), payload |-> 1],
   [wrapper |-> "Studio", method |-> "Studio::get_bus",
    function |-> "Studio_System_GetBus",
    error |-> Some("Studio_System_GetBus"), payload |-> 1],
   [wrapper |-> "Studio", method |-> "Studio::set_parameter_by_name",
    function |-> "Studio_System_SetParameterByName",
    error |-> Some("Studio_System_SetParameterByName"), payload |-> 0],
   [wrapper |-> "Studio", method |-> "Studio::set_listener_attributes",
    function |-> "Studio_System_SetListenerAttributes",
    error |-> Some("Studio_System_Update"), payload |-> 0],
   [wrapper |-> "Studio", method |-> "Studio::update",
    function |-> "Studio_System_Update",
    error |-> Some("Studio_System_Update"), payload |-> 0],
   [wrapper |-> "Bank", method |-> "Bank::get_event_list",
    function |-> "Studio_Bank_GetEventList",
    error |-> Some("Studio_Bank_GetEventList"), payload |-> 1],
   [wrapper |-> "Bank", method |-> "Bank::get_event_count",
    function |-> "Studio_Bank_GetEventCount",
    error |-> Some("Studio_Bank_GetEventCount"), payload |-> 1],
   [wrapper |-> "EventDescription", method |-> "EventDescription::get_path",
    function |-> "Studio_EventDescription_GetPath",
    error |-> Some("Studio_EventDescription_GetPath"), payload |-> 1],
   [wrapper |-> "EventDescription", method |-> "EventDescription::create_instance",
    function |-> "Studio_EventDescription_CreateInstance",
    error |-> Some("Studio_EventDescription_CreateInstance"), payload |-> 1],
   [wrapper |-> "EventDescription", method |-> "EventDescription::get_instance_count",
    function |-> "Studio_EventDescription_GetInstanceCount",
    error |-> Some("Studio_EventDescription_GetInstanceCount"), payload |-> 1],
   [wrapper |-> "EventInstance", method |-> "EventInstance::start",
    function |-> "Studio_EventInstance_Start",
    error |-> Some("Studio_EventInstance_Start"), payload |-> 0],
   [wrapper |-> "EventInstance", method |-> "EventInstance::release",
    function |-> "Studio_EventInstance_Release",
    error |-> Some("Studio_EventInstance_Release"), payload |-> 0],
   [wrapper |-> "EventInstance", method |-> "EventInstance::get_3d_attributes",
    function |-> "Studio_EventInstance_Get3DAttributes",
    error |-> Some("Studio_EventInstance_Get3DAttributes"), payload |-> 1],
   [wrapper |-> "EventInstance", method |-> "EventInstance::set_3d_attributes",
    function |-> "Studio_EventInstance_Set3DAttributes",
    error |-> Some("Studio_EventInstance_Set3DAttributes"), payload |-> 0],
   [wrapper |-> "EventInstance", method |-> "EventInstance::get_pitch",
    function |-> "Studio_EventInstance_GetPitch",
    error |-> Some("Studio_EventInstance_GetPitch"), payload |-> 2],
   [wrapper |-> "EventInstance", method |-> "EventInstance::set_pitch",
    function |-> "Studio_EventInstance_SetPitch",
    error |-> Some("Studio_EventInstance_SetPitch"), payload |-> 0],
   [wrapper |-> "EventInstance", method |-> "EventInstance::get_property",
    function |-> "Studio_EventInstance_GetProperty",
    error |-> Some("Studio_EventInstance_GetProperty"), payload |-> 1],
   [wrapper |-> "EventInstance", method |-> "EventInstance::set_property",
    function |-> "Studio_EventInstance_SetProperty",
    error |-> Some("Studio_EventInstance_SetProperty"), payload |-> 0],
   [wrapper |-> "EventInstance", method |-> "EventInstance::get_timeline_position",
    function |-> "Studio_EventInstance_GetTimelinePosition",
    error |-> Some("Studio_EventInstance_GetTimelinePosition"), payload |-> 1],
   [wrapper |-> "EventInstance", method |-> "EventInstance::set_timeline_position",
    function |-> "Studio_EventInstance_SetTimelinePosition",
    error |-> Some("Studio_EventInstance_SetTimelinePosition"), payload |-> 0],
   [wrapper |-> "EventInstance", method |-> "EventInstance::get_volume",
    function |-> "Studio_EventInstance_GetVolume",
    error |-> Some("Studio_EventInstance_GetVolume"), payload |-> 2],
   [wrapper |-> "EventInstance", method |-> "EventInstance::set_volume",
    function |-> "Studio_EventInstance_SetVolume",
    error |-> Some("Studio_EventInstance_SetVolume"), payload |-> 0],
   [wrapper |-> "EventInstance", method |-> "EventInstance::is_virtual",
    function |-> "Studio_EventInstance_IsVirtual",
    error |-> Some("Studio_EventInstance_IsVirtual"), payload |-> 1],
   [wrapper |-> "EventInstance", method |-> "EventInstance::get_parameter_by_name",
    function |-> "Studio_EventInstance_GetParameterByName",
    error |-> Some("Studio_EventInstance_GetParameterByName"), payload |-> 2],
   [wrapper |-> "EventInstance", method |-> "EventInstance::set_parameter_by_name",
    function |-> "Studio_EventInstance_SetParameterByName",
    error |-> Some("Studio_EventInstance_SetParameterByName"), payload |-> 0],
   [wrapper |-> "EventInstance", method |-> "EventInstance::stop",
    function |-> "Studio_EventInstance_Stop",
    error |-> Some("Studio_EventInstance_Stop"), payload |-> 0],
   [wrapper |-> "EventInstance", method |-> "EventInstance::get_paused",
    function |-> "Studio_EventInstance_GetPaused",
    error |-> Some("Studio_EventInstance_GetPaused"), payload |-> 1],
   [wrapper |-> "EventInstance", method |-> "EventInstance::set_paused",
    function |-> "Studio_EventInstance_SetPaused",
    error |-> Some("Studio_EventInstance_SetPaused"), payload |-> 0],
   [wrapper |-> "EventInstance", method |-> "EventInstance::get_playback_state",
    function |-> "Studio_EventInstance_GetPlaybackState",
    error |-> Some("Studio_EventInstance_GetPitch"), payload |-> 1],
   [wrapper |-> "Bus", method |-> "Bus::set_mute",
    function |-> "Studio_Bus_SetMute",
    error |-> None, payload |-> 0]
  }

\* one boundary call as the middleware sees it: the function, its arguments
\* (those it does not take keep their default) and the status it returned
Call(fn, status) ==
  [fn |-> fn, status |-> status, bank |-> 0, path |-> "", inst |-> 0, n |-> 0,
   flags |-> <<>>, attrs |-> <<>>, attenuation |-> <<>>, payload |-> <<>>]

\* the name of AudioEngine::load_bank_files_from_memory in `op`
LoadOp == "load_bank_files_from_memory"

\* the operation a caller invoked, with its arguments
Op(name) ==
  [name |-> name, event_name |-> "", position |-> ZERO, velocity |-> ZERO,
   asset_id |-> 0, buffers |-> <<>>, live_update |-> FALSE, inst |-> 0,
   pitch |-> 0, timeline_position |-> [top |-> 0, low |-> 0]]

\* ------------------------------------------------------------------- state
VARIABLES
  debug_assertions,   \* the build: debug_assert! is compiled in
  handle,             \* AudioEngine.handle: None before AudioEngine::new returned Ok
  event_names,        \* AudioEngine.event_names
  asset_id,           \* AudioEngine.asset_id
  listener_position,  \* AudioEngine.listener_position
  listener_velocity,  \* AudioEngine.listener_velocity
  mw_banks,           \* middleware: the resident banks, in load order
  mw_listener,        \* middleware: the listener attributes it last accepted
  mw_instances,       \* middleware: the event instances it created
  op,                 \* the last operation invoked
  calls,              \* the boundary calls the last operation made, in order
  result,             \* what the last operation returned (or that it panicked)
  loaded,             \* some load_bank_files_from_memory call has returned Ok
  game                \* main.rs: the demo driver's Game and how its last tick ended

vars ==
  <<debug_assertions, handle, event_names, asset_id, listener_position,
    listener_velocity, mw_banks, mw_listener, mw_instances, op, calls, result,
    loaded, game>>

engine_vars ==
  <<handle, event_names, asset_id, listener_position, listener_velocity>>
mw_vars == <<mw_banks, mw_listener, mw_instances>>

\* struct Game of the demo driver: tick_count and current, and for the last
\* call of tick the scripted steps it ran, how it ended ("true", "false", or
\* "panic" for a failed unwrap) and whether a next frame is scheduled; `spurious`
\* records that some boundary call failed on an instance the middleware holds.
\* This is the value while no driver runs.
NoGame ==
  [tick_count |-> 0, current |-> None, steps |-> <<>>, returned |-> "",
   scheduled |-> FALSE, spurious |-> FALSE]

\* the state before AudioEngine::new, in a build with debug_assert! or without
InitBuild(debug) ==
  /\ debug_assertions = debug
  /\ handle = None
  /\ event_names = <<>>
  /\ asset_id = None
  /\ listener_position = ZERO
  /\ listener_velocity = ZERO
  /\ mw_banks = <<>>
  /\ mw_listener = None
  /\ mw_instances = <<>>
  /\ op = Op("")
  /\ calls = <<>>
  /\ result = NoResult
  /\ loaded = FALSE
  /\ game = NoGame

Init == InitBuild(FALSE)
InitAnyBuild == \E debug \in BOOLEAN : InitBuild(debug)

\* the process runs and holds an engine
Live == handle # None /\ result.kind # "Panic"

\* --------------------------------------------------------- AudioEngine::new
\* StudioInit::NORMAL | StudioInit::LIVEUPDATE, or StudioInit::NORMAL
studio_flags(live_update) == IF live_update THEN 1 ELSE 0

new(live_update, st) ==
  LET create == Studio_create(st[1])
      c1 == Call("Studio_System_Create", st[1])
      initialize == Studio_initialize(st[2])
      c2 == [Call("Studio_System_Initialize", st[2]) EXCEPT
               !.n = 1024, !.flags = <<studio_flags(live_update), 4>>]
  IN IF create.kind # "Ok"
     THEN /\ calls' = <<c1>>
          /\ result' = create
          /\ UNCHANGED engine_vars
     ELSE IF initialize.kind # "Ok"
     THEN /\ calls' = <<c1, c2>>
          /\ result' = PanicResult
          /\ UNCHANGED engine_vars
     ELSE /\ calls' = <<c1, c2>>
          /\ result' = OkResult
          /\ handle' = Some("studio")
          /\ event_names' = <<>>
          /\ asset_id' = None
          /\ listener_position' = ZERO
          /\ listener_velocity' = ZERO

New ==
  \E live_update \in BOOLEAN, st \in Oracles(2) :
    /\ handle = None
    /\ result.kind # "Panic"
    /\ new(live_update, st)
    /\ op' = [Op("new") EXCEPT !.live_update = live_update]
    /\ UNCHANGED <<debug_assertions, mw_vars, loaded, game>>

\* ------------------------------------------------------- the listener pose
\* mutant: the orientation is y-up, forward along z
Attributes3d_y_up(position, velocity) ==
  [position |-> <<position[1], position[2], 0>>,
   velocity |-> <<velocity[1], velocity[2], 0>>,
   forward |-> <<0, 0, 1>>,
   up |-> <<0, 1, 0>>]

\* fmod::Attributes3d built from a 2D position and velocity
Attributes3d(position, velocity) ==
  [position |-> <<position[1], position[2], 0>>,
   velocity |-> <<velocity[1], velocity[2], 0>>,
   forward |-> <<0, 1, 0>>,
   up |-> <<0, 0, 1>>]

\* mutant: the pose is committed before the result of the call is looked at
set_listener_position_velocity_commit_first(position, velocity, status) ==
  LET r == Studio_set_listener_attributes(status)
      c == [Call("Studio_System_SetListenerAttributes", status) EXCEPT
              !.n = 0, !.attrs = Some(Attributes3d(position, velocity)),
              !.attenuation = None]
  IN /\ calls' = <<c>>
     /\ mw_listener' = IF status = 0 THEN Some(c.attrs[1]) ELSE mw_listener
     /\ result' = r
     /\ listener_position' = position
     /\ listener_velocity' = velocity
     /\ UNCHANGED <<handle, event_names, asset_id, mw_banks, mw_instances>>

\* mutant: the position is committed before the call, the velocity after it
set_listener_position_velocity_partial(position, velocity, status) ==
  LET r == Studio_set_listener_attributes(status)
      c == [Call("Studio_System_SetListenerAttributes", status) EXCEPT
              !.n = 0, !.attrs = Some(Attributes3d(position, velocity)),
              !.attenuation = None]
  IN /\ calls' = <<c>>
     /\ mw_listener' = IF status = 0 THEN Some(c.attrs[1]) ELSE mw_listener
     /\ result' = r
     /\ listener_position' = position
     /\ listener_velocity' = IF r.kind = "Ok" THEN velocity ELSE listener_velocity
     /\ UNCHANGED <<handle, event_names, asset_id, mw_banks, mw_instances>>

set_listener_position_velocity(position, velocity, status) ==
  LET r == Studio_set_listener_attributes(status)
      c == [Call("Studio_System_SetListenerAttributes", status) EXCEPT
              !.n = 0, !.attrs = Some(Attributes3d(position, velocity)),
              !.attenuation = None]
  IN /\ calls' = <<c>>
     /\ mw_listener' = IF status = 0 THEN Some(c.attrs[1]) ELSE mw_listener
     /\ result' = r
     /\ IF r.kind = "Ok"
        THEN /\ listener_position' = position
             /\ listener_velocity' = velocity
        ELSE UNCHANGED <<listener_position, listener_velocity>>
     /\ UNCHANGED <<handle, event_names, asset_id, mw_banks, mw_instances>>

set_listener_position(position, status) ==
  set_listener_position_velocity(position, listener_velocity, status)

set_listener_velocity(velocity, status) ==
  set_listener_position_velocity(listener_position, velocity, status)

SetListenerPositionVelocity ==
  /\ Live
  /\ \E position \in Vec2s, velocity \in Vec2s, status \in Status :
       /\ set_listener_position_velocity(position, velocity, status)
       /\ op' = [Op("set_listener_position_velocity") EXCEPT
                   !.position = position, !.velocity = velocity]
       /\ UNCHANGED <<debug_assertions, loaded, game>>

SetListenerPosition ==
  /\ Live
  /\ \E position \in Vec2s, status \in Status :
       /\ set_listener_position(position, status)
       /\ op' = [Op("set_listener_position") EXCEPT !.position = position]
       /\ UNCHANGED <<debug_assertions, loaded, game>>

SetListenerVelocity ==
  /\ Live
  /\ \E velocity \in Vec2s, status \in Status :
       /\ set_listener_velocity(velocity, status)
       /\ op' = [Op("set_listener_velocity") EXCEPT !.velocity = velocity]
       /\ UNCHANGED <<debug_assertions, loaded, game>>

\* ------------------------------------------- the middleware's event instances
\* An instance as the middleware holds it, by what the documentation in lib.rs
\* says of it: the default pitch is 1.0; the final pitch is calculated once a
\* frame, in update; an instance marked for release is destroyed when it is in
\* the stopped state; a call on a destroyed instance finds an invalid handle.
\* `started` records that the instance was ever started, `modulated` that a
\* frame calculated a final pitch with active modulation, `pending` that a
\* pitch was set which no frame has taken up yet.
NewInstance(desc) ==
  [desc |-> desc, attrs |-> None, started |-> FALSE, released |-> FALSE,
   valid |-> TRUE, state |-> "Stopped", pitch |-> 1, final_pitch |-> 1,
   modulated |-> FALSE, pending |-> FALSE]

\* the status a boundary function answers with for instance `inst`: the
\* middleware reports a destroyed instance as ErrInvalidHandle
Answer(instances, inst, status) ==
  IF instances[inst].valid THEN status ELSE FMODResult.ErrInvalidHandle

\* one frame of the middleware for one instance: playback moves on, the final
\* pitch is calculated (with modulation it differs from the pitch that was
\* set), and a stopped instance that is marked for release is destroyed
TickInstance(m) ==
  IF ~m.valid THEN {m}
  ELSE
    {[m EXCEPT !.state = state,
               !.final_pitch = m.pitch + modulation,
               !.modulated = (m.modulated \/ modulation # 0),
               !.pending = FALSE,
               !.valid = ~(m.released /\ state = "Stopped")] :
       state \in CASE m.state = "Starting" -> {"Playing"}
                   [] m.state = "Playing" -> {"Playing", "Stopped"}
                   [] m.state = "Stopping" -> {"Stopping", "Stopped"}
                   [] OTHER -> {m.state},
       modulation \in {0, 1}}

\* one frame of the middleware: Studio_System_Update returned Ok
RECURSIVE Tick(_)
Tick(instances) ==
  IF instances = <<>> THEN {<<>>}
  ELSE {<<m>> \o rest : m \in TickInstance(Head(instances)), rest \in Tick(Tail(instances))}

\* ------------------------------------------------------ AudioEngine::update
\* mutant: the asset_id guard is missing
update_unguarded(status) ==
  /\ calls' = <<Call("Studio_System_Update", status)>>
  /\ result' = Studio_update(status)
  /\ mw_instances' \in IF status = 0 THEN Tick(mw_instances) ELSE {mw_instances}
  /\ UNCHANGED <<engine_vars, mw_banks, mw_listener>>

update(status) ==
  IF asset_id = None
  THEN /\ calls' = <<>>
       /\ result' = OkResult
       /\ UNCHANGED <<engine_vars, mw_vars>>
  ELSE /\ calls' = <<Call("Studio_System_Update", status)>>
       /\ result' = Studio_update(status)
       /\ mw_instances' \in IF status = 0 THEN Tick(mw_instances) ELSE {mw_instances}
       /\ UNCHANGED <<engine_vars, mw_banks, mw_listener>>

Update ==
  /\ Live
  /\ \E status \in Status :
       /\ update(status)
       /\ op' = Op("update")
       /\ UNCHANGED <<debug_assertions, loaded, game>>

\* ------------------------------------------------ AudioEngine::unload_banks
\* mutant: a failed unload is returned as an error instead of panicking
unload_banks_returns_error(status) ==
  /\ calls' = <<Call("Studio_System_UnloadAll", status)>>
  /\ result' = Studio_unload_all(status)
  /\ mw_banks' = IF status = 0 THEN <<>> ELSE mw_banks
  /\ UNCHANGED <<engine_vars, mw_listener, mw_instances>>

\* mutant: unloading also forgets the asset id
unload_banks_clears_asset_id(status) ==
  /\ calls' = <<Call("Studio_System_UnloadAll", status)>>
  /\ result' = IF Studio_unload_all(status).kind = "Ok" THEN OkResult ELSE PanicResult
  /\ mw_banks' = IF status = 0 THEN <<>> ELSE mw_banks
  /\ asset_id' = IF status = 0 THEN None ELSE asset_id
  /\ UNCHANGED <<handle, event_names, listener_position, listener_velocity,
                 mw_listener, mw_instances>>

\* mutant: unloading also forgets the event names
unload_banks_clears_event_names(status) ==
  /\ calls' = <<Call("Studio_System_UnloadAll", status)>>
  /\ result' = IF Studio_unload_all(status).kind = "Ok" THEN OkResult ELSE PanicResult
  /\ mw_banks' = IF status = 0 THEN <<>> ELSE mw_banks
  /\ event_names' = IF status = 0 THEN <<>> ELSE event_names
  /\ UNCHANGED <<handle, asset_id, listener_position, listener_velocity,
                 mw_listener, mw_instances>>

unload_banks(status) ==
  /\ calls' = <<Call("Studio_System_UnloadAll", status)>>
  /\ result' = IF Studio_unload_all(status).kind = "Ok" THEN OkResult ELSE PanicResult
  /\ mw_banks' = IF status = 0 THEN <<>> ELSE mw_banks
  /\ UNCHANGED <<engine_vars, mw_listener, mw_instances>>

UnloadBanks ==
  /\ Live
  /\ \E status \in Status :
       /\ unload_banks(status)
       /\ op' = Op("unload_banks")
       /\ UNCHANGED <<debug_assertions, loaded, game>>

\* ---------------------------------- AudioEngine::load_bank_files_from_memory
Range(s) == {s[k] : k \in DOMAIN s}
RECURSIVE Flatten(_)
Flatten(ss) == IF ss = <<>> THEN <<>> ELSE Head(ss) \o Flatten(Tail(ss))

\* every event path of every bank, and the statuses of the path queries
EventPaths == UNION {Range(BankEvents(b)) : b \in Banks}
PathStatuses == [EventPaths -> {0, 30}]
BufferSlices == UNION {[1..n -> Banks] : n \in 0..MaxBuffers}

\* Studio_Bank_GetEventList(bank, capacity): the payload of a call that succeeds
event_list(b, capacity) ==
  SubSeq(BankEvents(b), 1,
         IF capacity < Len(BankEvents(b)) THEN capacity ELSE Len(BankEvents(b)))

\* mutant: a description whose path query fails is listed all the same
RECURSIVE push_paths_unfiltered(_, _, _)
push_paths_unfiltered(list, path_status, acc) ==
  IF list = <<>> THEN acc
  ELSE LET d == Head(list)
           c == [Call("Studio_EventDescription_GetPath", path_status[d]) EXCEPT
                   !.path = d]
       IN push_paths_unfiltered(Tail(list), path_status,
            [names |-> Append(acc.names, d), calls |-> Append(acc.calls, c)])

\* for maybe_name in list.into_iter().flat_map(|v| v.get_path()) { push }
\* acc = [names, calls]
RECURSIVE push_paths(_, _, _)
push_paths(list, path_status, acc) ==
  IF list = <<>> THEN acc
  ELSE LET d == Head(list)
           r == EventDescription_get_path(path_status[d])
           c == [Call("Studio_EventDescription_GetPath", path_status[d]) EXCEPT
                   !.path = d]
       IN push_paths(Tail(list), path_status,
            [names |-> IF r.kind = "Ok" THEN Append(acc.names, d) ELSE acc.names,
             calls |-> Append(acc.calls, c)])

\* for buffer in buffers { ... }, from buffer i on; acc = [names, banks, calls, result]
RECURSIVE load_buffers(_, _, _, _, _)
load_buffers(buffers, i, st, path_status, acc) ==
  IF i > Len(buffers) THEN acc
  ELSE
    LET b == buffers[i]
        r1 == Studio_load_bank_memory(st[3 * i - 2])
        c1 == [Call("Studio_System_LoadBankMemory", st[3 * i - 2]) EXCEPT
                 !.bank = b, !.flags = <<0>>]
        banks1 == IF st[3 * i - 2] = 0 THEN Append(acc.banks, b) ELSE acc.banks
        r2 == Bank_get_event_count(st[3 * i - 1])
        c2 == [Call("Studio_Bank_GetEventCount", st[3 * i - 1]) EXCEPT !.bank = b]
        count == Len(BankEvents(b))
        r3 == Bank_get_event_list(st[3 * i])
        c3 == [Call("Studio_Bank_GetEventList", st[3 * i]) EXCEPT
                 !.bank = b, !.n = count]
        pushed == push_paths(event_list(b, count), path_status,
                             [names |-> acc.names, calls |-> acc.calls \o <<c1, c2, c3>>])
    IN IF r1.kind # "Ok"
       THEN [acc EXCEPT !.calls = Append(@, c1), !.result = r1]
       ELSE IF r2.kind # "Ok"
       THEN [acc EXCEPT !.banks = banks1, !.calls = @ \o <<c1, c2>>, !.result = r2]
       ELSE IF r3.kind # "Ok"
       THEN [acc EXCEPT !.banks = banks1, !.calls = @ \o <<c1, c2, c3>>, !.result = r3]
       ELSE load_buffers(buffers, i + 1, st, path_status,
              [names |-> pushed.names, banks |-> banks1, calls |-> pushed.calls,
               result |-> OkResult])

\* mutant: the asset id is recorded before the buffers are loaded
load_bank_files_from_memory_asset_first(id, buffers, st, path_status) ==
  LET out == load_buffers(buffers, 1, st, path_status,
               [names |-> event_names, banks |-> mw_banks, calls |-> <<>>,
                result |-> OkResult])
  IN /\ event_names' = out.names
     /\ mw_banks' = out.banks
     /\ calls' = out.calls
     /\ result' = out.result
     /\ asset_id' = Some(id)
     /\ UNCHANGED <<handle, listener_position, listener_velocity, mw_listener,
                    mw_instances>>

\* mutant: a failed call rolls back the names it pushed
load_bank_files_from_memory_rollback(id, buffers, st, path_status) ==
  LET out == load_buffers(buffers, 1, st, path_status,
               [names |-> event_names, banks |-> mw_banks, calls |-> <<>>,
                result |-> OkResult])
  IN /\ event_names' = IF out.result.kind = "Ok" THEN out.names ELSE event_names
     /\ mw_banks' = out.banks
     /\ calls' = out.calls
     /\ result' = out.result
     /\ asset_id' = IF out.result.kind = "Ok" THEN Some(id) ELSE asset_id
     /\ UNCHANGED <<handle, listener_position, listener_velocity, mw_listener,
                    mw_instances>>

load_bank_files_from_memory(id, buffers, st, path_status) ==
  LET out == load_buffers(buffers, 1, st, path_status,
               [names |-> event_names, banks |-> mw_banks, calls |-> <<>>,
                result |-> OkResult])
  IN /\ event_names' = out.names
     /\ mw_banks' = out.banks
     /\ calls' = out.calls
     /\ result' = out.result
     /\ asset_id' = IF out.result.kind = "Ok" THEN Some(id) ELSE asset_id
     /\ UNCHANGED <<handle, listener_position, listener_velocity, mw_listener,
                    mw_instances>>

\* the statuses of the path queries a call with these buffers can make
PathStatusesFor(buffers) ==
  {ps \in PathStatuses :
     \A p \in EventPaths :
       ps[p] # 0 => \E k \in 1..Len(buffers) : p \in Range(BankEvents(buffers[k]))}

LoadBankFilesFromMemory ==
  /\ Live
  /\ \E buffers \in BufferSlices :
       /\ Len(event_names)
            + Len(Flatten([k \in 1..Len(buffers) |-> BankEvents(buffers[k])])) <= MaxNames
       /\ Len(mw_banks) + Len(buffers) <= MaxResident
       /\ \E id \in AssetIds, path_status \in PathStatusesFor(buffers),
             st \in Oracles(3 * Len(buffers)) :
            /\ load_bank_files_from_memory(id, buffers, st, path_status)
            /\ op' = [Op(LoadOp) EXCEPT !.asset_id = id, !.buffers = buffers]
            /\ loaded' = (loaded \/ result'.kind = "Ok")
            /\ UNCHANGED <<debug_assertions, game>>

\* --------------------------------------------- the binding, method by method
\* the range of the i32 status of an envelope
I32Min == -2147483647 - 1
I32Max == 2147483647
\* A u32 is held as its top bit and its low 31 bits, so that every value of the
\* type is at hand: the value is top * 2^31 + low.
U32(top, low) == [top |-> top, low |-> low]
\* `x as i32` for a u32 x: the same 32 bits, read as two's complement
as_i32(x) == IF x.top = 0 THEN x.low ELSE I32Min + x.low
\* `x as u32` for an i32 x
as_u32(x) == IF x >= 0 THEN U32(0, x) ELSE U32(1, x - I32Min)
\* the statuses an envelope may carry: the codes of the table, the first codes
\* past it, a negative code and both ends of the range
I32s == {I32Min, -1} \cup 0..83 \cup {99, I32Max}
\* the payload value an envelope may carry (a handle, a number, a string)
Payloads == {5}
Envelopes(n) == [status : I32s, payload : [1..n -> Payloads]]

\* mutant: the payload is handed out whatever the status is
binding_call_payload_first(b, envelope) ==
  IF b.error = None THEN OkResult
  ELSE [Binding(b.error[1], envelope.status) EXCEPT !.value = envelope.payload]

\* One method of the binding, called when the boundary function answers with
\* `envelope`: match FMODResult::from(result.0) { Ok => Ok(result.1 ..), err => Err(..) }.
\* Bus::set_mute receives no envelope and returns Ok(()).
binding_call(b, envelope) ==
  IF b.error = None THEN OkResult
  ELSE LET r == Binding(b.error[1], envelope.status)
       IN IF r.kind = "Ok" THEN [r EXCEPT !.value = envelope.payload] ELSE r

\* the method of this name
BindingOf(method) == CHOOSE b \in Bindings : b.method = method

\* The methods of the binding do not depend on each other.  A sequence of calls
\* goes on after an Ok only: every caller in lib.rs leaves at the first Err,
\* through `?`, unwrap or expect.
Continues == result.kind \in {"None", "Ok"}

\* a caller invoked method b and the boundary function answered with `envelope`
Invoked(b, envelope) ==
  /\ op' = Op(b.method)
  /\ calls' = <<[Call(b.function, envelope.status) EXCEPT !.payload = envelope.payload]>>
  /\ result' = binding_call(b, envelope)
  /\ UNCHANGED <<debug_assertions, engine_vars, mw_vars, loaded, game>>

StudioMethod ==
  /\ Continues
  /\ \E b \in {x \in Bindings : x.wrapper = "Studio"} :
       \E envelope \in Envelopes(b.payload) : Invoked(b, envelope)

BankMethod ==
  /\ Continues
  /\ \E b \in {x \in Bindings : x.wrapper = "Bank"} :
       \E envelope \in Envelopes(b.payload) : Invoked(b, envelope)

EventDescriptionMethod ==
  /\ Continues
  /\ \E b \in {x \in Bindings : x.wrapper = "EventDescription"} :
       \E envelope \in Envelopes(b.payload) : Invoked(b, envelope)

EventInstanceMethod ==
  /\ Continues
  /\ \E b \in {x \in Bindings : x.wrapper = "EventInstance"} :
       \E envelope \in Envelopes(b.payload) : Invoked(b, envelope)

BusMethod ==
  /\ Continues
  /\ \E b \in {x \in Bindings : x.wrapper = "Bus"} :
       \E envelope \in Envelopes(b.payload) : Invoked(b, envelope)

\* -------------------------------------------- AudioEngine::set_global_mute
\* Bus::set_mute of the native binding: the status of the middleware's
\* set-mute call comes first, as for every call of that binding
Native_Bus_set_mute(status) == Binding("FMOD_Studio_Bus_SetMute", status)

\* Bus::set_mute of the binding that is compiled in
Bus_set_mute(backend, status) ==
  IF backend = "interop"
  THEN binding_call(BindingOf("Bus::set_mute"), [status |-> status, payload |-> <<>>])
  ELSE Native_Bus_set_mute(status)

\* self.handle.get_bus("bus:/").unwrap().set_mute(mute).unwrap(), as a result
set_global_mute_on(backend, st) ==
  LET bus == binding_call(BindingOf("Studio::get_bus"),
                          [status |-> st[1], payload |-> <<"bus:/">>])
  IN IF bus.kind # "Ok" THEN PanicResult
     ELSE IF Bus_set_mute(backend, st[2]).kind # "Ok" THEN PanicResult
     ELSE OkResult

\* the boundary calls of set_global_mute: the second is made when the bus was found
set_global_mute_calls(mute, st) ==
  LET c1 == [Call("Studio_System_GetBus", st[1]) EXCEPT !.path = "bus:/"]
      c2 == [Call("Studio_Bus_SetMute", st[2]) EXCEPT !.path = "bus:/", !.flags = <<mute>>]
  IN IF st[1] = 0 THEN <<c1, c2>> ELSE <<c1>>

set_global_mute(mute, st) ==
  /\ calls' = set_global_mute_calls(mute, st)
  /\ result' = set_global_mute_on("interop", st)
  /\ UNCHANGED <<engine_vars, mw_vars>>

SetGlobalMute ==
  /\ Live
  /\ \E mute \in BOOLEAN, st \in Oracles(2) :
       /\ set_global_mute(mute, st)
       /\ op' = Op("set_global_mute")
       /\ UNCHANGED <<debug_assertions, loaded, game>>

\* ---------------------------------------- AudioEngine::set_global_parameter
\* the parameter names and values a caller passes
ParameterNames == {"Intensity"}
ParameterValues == {0, 1}

\* self.handle.set_parameter_by_name(parameter_name, value, true)
set_global_parameter_call(parameter_name, value, status) ==
  [Call("Studio_System_SetParameterByName", status) EXCEPT
     !.path = parameter_name, !.n = value, !.flags = <<TRUE>>]

\* self.handle.set_parameter_by_name(parameter_name, value, true)?; Ok(())
set_global_parameter_result(status) ==
  binding_call(BindingOf("Studio::set_parameter_by_name"),
               [status |-> status, payload |-> <<>>])

set_global_parameter(parameter_name, value, status) ==
  /\ calls' = <<set_global_parameter_call(parameter_name, value, status)>>
  /\ result' = set_global_parameter_result(status)
  /\ UNCHANGED <<engine_vars, mw_vars>>

SetGlobalParameter ==
  /\ Live
  /\ \E parameter_name \in ParameterNames, value \in ParameterValues, status \in Status :
       /\ set_global_parameter(parameter_name, value, status)
       /\ op' = Op("set_global_parameter")
       /\ UNCHANGED <<debug_assertions, loaded, game>>

\* ------------------------------------------------------- event instances
\* mutant: the prefix is asserted in every build
event_name_as_ref_asserts(event_name) == ~starts_with_event(event_name)

\* debug_assert!(event_name.starts_with("event:/")) of event_name_as_ref fires
event_name_as_ref_panics(event_name) ==
  debug_assertions /\ ~starts_with_event(event_name)

\* The operations below thread x = [instances, calls, result]: the middleware's
\* instances, the boundary calls made so far, and the result of the last step.

\* Statuses for an operation that looks an event up first: Studio_System_GetEvent
\* also answers ErrEventNotFound, for a path the middleware does not know.
GetEventOracles(n) ==
  Oracles(n) \cup {[k \in 1..n |-> IF k = 1 THEN FMODResult.ErrEventNotFound ELSE 0]}

\* the payload of Studio_EventDescription_GetInstanceCount for this event
instance_count(instances, event_name) ==
  Cardinality({i \in DOMAIN instances :
                 instances[i].desc = event_name /\ instances[i].valid})

\* mutant: the result of the lookup is not looked at
create_event_instance_unchecked(instances, event_name, st) ==
  LET c1 == [Call("Studio_System_GetEvent", st[1]) EXCEPT !.path = event_name]
      r2 == EventDescription_create_instance(st[2])
      c2 == [Call("Studio_EventDescription_CreateInstance", st[2]) EXCEPT
               !.path = event_name]
  IN IF event_name_as_ref_panics(event_name)
     THEN [instances |-> instances, calls |-> <<>>, result |-> PanicResult]
     ELSE IF r2.kind # "Ok"
     THEN [instances |-> instances, calls |-> <<c1, c2>>, result |-> r2]
     ELSE [instances |-> Append(instances, NewInstance(event_name)),
           calls |-> <<c1, c2>>,
           result |-> OkInstance(Len(instances) + 1)]

\* AudioEngine::create_event_instance
create_event_instance(instances, event_name, st) ==
  LET r1 == Studio_get_event(st[1])
      c1 == [Call("Studio_System_GetEvent", st[1]) EXCEPT !.path = event_name]
      r2 == EventDescription_create_instance(st[2])
      c2 == [Call("Studio_EventDescription_CreateInstance", st[2]) EXCEPT
               !.path = event_name]
  IN IF event_name_as_ref_panics(event_name)
     THEN [instances |-> instances, calls |-> <<>>, result |-> PanicResult]
     ELSE IF r1.kind # "Ok"
     THEN [instances |-> instances, calls |-> <<c1>>, result |-> r1]
     ELSE IF r2.kind # "Ok"
     THEN [instances |-> instances, calls |-> <<c1, c2>>, result |-> r2]
     ELSE [instances |-> Append(instances, NewInstance(event_name)),
           calls |-> <<c1, c2>>,
           result |-> OkInstance(Len(instances) + 1)]

\* AudioEngine::event_instance_count: the lookup, then
\* Ok(event_descriptor.get_instance_count()? as u32)
event_instance_count(instances, event_name, st) ==
  LET r1 == Studio_get_event(st[1])
      c1 == [Call("Studio_System_GetEvent", st[1]) EXCEPT !.path = event_name]
      payload == <<instance_count(instances, event_name)>>
      r2 == binding_call(BindingOf("EventDescription::get_instance_count"),
                         [status |-> st[2], payload |-> payload])
      c2 == [Call("Studio_EventDescription_GetInstanceCount", st[2]) EXCEPT
               !.path = event_name, !.payload = payload]
  IN IF event_name_as_ref_panics(event_name)
     THEN [instances |-> instances, calls |-> <<>>, result |-> PanicResult]
     ELSE IF r1.kind # "Ok"
     THEN [instances |-> instances, calls |-> <<c1>>, result |-> r1]
     ELSE IF r2.kind # "Ok"
     THEN [instances |-> instances, calls |-> <<c1, c2>>, result |-> r2]
     ELSE [instances |-> instances, calls |-> <<c1, c2>>,
           result |-> [r2 EXCEPT !.value = Some(as_u32(@[1]))]]

\* AudioEngine::is_event_playing: Ok(self.event_instance_count(event_name)? > 0)
is_event_playing(instances, event_name, st) ==
  LET count == event_instance_count(instances, event_name, st)
  IN IF count.result.kind # "Ok" THEN count
     ELSE [count EXCEPT !.result.value = Some(@[1].top = 1 \/ @[1].low > 0)]

\* EventInstance::start
start(x, inst, status) ==
  [instances |-> IF status = 0
                 THEN [x.instances EXCEPT ![inst].started = TRUE,
                                          ![inst].state = "Starting"]
                 ELSE x.instances,
   calls |-> Append(x.calls,
                    [Call("Studio_EventInstance_Start", status) EXCEPT !.inst = inst]),
   result |-> EventInstance_start(status)]

\* EventInstance::mark_for_release
mark_for_release(x, inst, status) ==
  [instances |-> IF status = 0 THEN [x.instances EXCEPT ![inst].released = TRUE]
                 ELSE x.instances,
   calls |-> Append(x.calls,
                    [Call("Studio_EventInstance_Release", status) EXCEPT !.inst = inst]),
   result |-> EventInstance_release(status)]

\* EventInstance::set_position_velocity
set_position_velocity(x, inst, position, velocity, status) ==
  LET attrs == Attributes3d(position, velocity)
  IN [instances |-> IF status = 0
                    THEN [x.instances EXCEPT ![inst].attrs = Some(attrs)]
                    ELSE x.instances,
      calls |-> Append(x.calls,
                       [Call("Studio_EventInstance_Set3DAttributes", status) EXCEPT
                          !.inst = inst, !.attrs = Some(attrs)]),
      result |-> EventInstance_set_3d_attributes(status)]

\* AudioEngine::play_event
play_event(instances, event_name, st) ==
  LET event == create_event_instance(instances, event_name, st)
      started == start(event, event.result.inst, st[3])
      released == mark_for_release(started, event.result.inst, st[4])
  IN IF event.result.kind # "Ok" THEN event
     ELSE IF started.result.kind # "Ok" THEN started
     ELSE IF released.result.kind # "Ok" THEN released
     ELSE [released EXCEPT !.result = event.result]

\* mutant: the instance is marked for release before it is started
play_event_with_position_velocity_release_first(instances, event_name, position, velocity, st) ==
  LET event == create_event_instance(instances, event_name, st)
      placed == set_position_velocity(event, event.result.inst, position, velocity, st[3])
      released == mark_for_release(placed, event.result.inst, st[4])
      started == start(released, event.result.inst, st[5])
  IN IF event.result.kind # "Ok" THEN event
     ELSE IF placed.result.kind # "Ok" THEN placed
     ELSE IF released.result.kind # "Ok" THEN released
     ELSE IF started.result.kind # "Ok" THEN started
     ELSE [started EXCEPT !.result = event.result]

\* mutant: when a step fails, the instance is marked for release before the
\* error is returned
play_event_with_position_velocity_cleanup(instances, event_name, position, velocity, st) ==
  LET event == create_event_instance(instances, event_name, st)
      placed == set_position_velocity(event, event.result.inst, position, velocity, st[3])
      started == start(placed, event.result.inst, st[4])
      released == mark_for_release(started, event.result.inst, st[5])
      dropped(x) == [mark_for_release(x, event.result.inst, 0) EXCEPT !.result = x.result]
  IN IF event.result.kind # "Ok" THEN event
     ELSE IF placed.result.kind # "Ok" THEN dropped(placed)
     ELSE IF started.result.kind # "Ok" THEN dropped(started)
     ELSE IF released.result.kind # "Ok" THEN dropped(released)
     ELSE [released EXCEPT !.result = event.result]

\* AudioEngine::play_event_with_position_velocity
play_event_with_position_velocity(instances, event_name, position, velocity, st) ==
  LET event == create_event_instance(instances, event_name, st)
      placed == set_position_velocity(event, event.result.inst, position, velocity, st[3])
      started == start(placed, event.result.inst, st[4])
      released == mark_for_release(started, event.result.inst, st[5])
  IN IF event.result.kind # "Ok" THEN event
     ELSE IF placed.result.kind # "Ok" THEN placed
     ELSE IF started.result.kind # "Ok" THEN started
     ELSE IF released.result.kind # "Ok" THEN released
     ELSE [released EXCEPT !.result = event.result]

\* AudioEngine::play_event_with_position
play_event_with_position(instances, event_name, position, st) ==
  play_event_with_position_velocity(instances, event_name, position, ZERO, st)

\* ------------------------------------------------- EventInstance (lib.rs)
\* enum StopMode and enum PlaybackState of the binding, by discriminant
StopMode == [AllowFadeout |-> 0, Immediate |-> 1]
PlaybackState == [Playing |-> 0, Sustaining |-> 1, Stopped |-> 2, Starting |-> 3, Stopping |-> 4]

\* the pitch values a caller sets (the default is 1)
Pitches == {0, 2}
\* the position and velocity a caller gives an instance
InstancePoses == {<<ZERO, ZERO>>, <<<<1, 2>>, <<3, 4>>>>}

\* the middleware's instances before an operation, no call made yet
Mw == [instances |-> mw_instances, calls |-> <<>>, result |-> OkResult]

\* Studio_EventInstance_Stop(instance, stop_mode), accepted by the middleware
stopped(m, stop_mode) ==
  [m EXCEPT !.state = IF stop_mode = StopMode.Immediate \/ m.state = "Stopped"
                      THEN "Stopped" ELSE "Stopping"]

\* EventInstance::stop of the binding
stop_with(x, inst, stop_mode, status) ==
  [instances |-> IF status = 0
                 THEN [x.instances EXCEPT ![inst] = stopped(@, stop_mode)]
                 ELSE x.instances,
   calls |-> Append(x.calls,
                    [Call("Studio_EventInstance_Stop", status) EXCEPT
                       !.inst = inst, !.n = stop_mode]),
   result |-> binding_call(BindingOf("EventInstance::stop"),
                           [status |-> status, payload |-> <<>>])]

\* EventInstance::stop
stop(x, inst, status) == stop_with(x, inst, StopMode.AllowFadeout, status)

\* mutant: stop_immediately asks for a fadeout
stop_immediately_with_fadeout(x, inst, status) ==
  stop_with(x, inst, StopMode.AllowFadeout, status)

\* EventInstance::stop_immediately
stop_immediately(x, inst, status) == stop_with(x, inst, StopMode.Immediate, status)

\* EventInstance::set_pitch
set_pitch(x, inst, pitch, status) ==
  IF debug_assertions /\ ~(pitch >= 0)
  THEN [x EXCEPT !.result = PanicResult]
  ELSE [instances |-> IF status = 0
                      THEN [x.instances EXCEPT ![inst].pitch = pitch,
                                               ![inst].pending = TRUE]
                      ELSE x.instances,
        calls |-> Append(x.calls,
                         [Call("Studio_EventInstance_SetPitch", status) EXCEPT
                            !.inst = inst, !.n = pitch]),
        result |-> binding_call(BindingOf("EventInstance::set_pitch"),
                                [status |-> status, payload |-> <<>>])]

\* EventInstance::get_pitch of the binding: Ok((result.1, result.2))
get_pitch(x, inst, status) ==
  LET m == x.instances[inst]
      payload == <<m.pitch, m.final_pitch>>
  IN [instances |-> x.instances,
      calls |-> Append(x.calls,
                       [Call("Studio_EventInstance_GetPitch", status) EXCEPT
                          !.inst = inst, !.payload = payload]),
      result |-> binding_call(BindingOf("EventInstance::get_pitch"),
                              [status |-> status, payload |-> payload])]

\* mutant: pitch returns the second component of the pair
pitch_second(x, inst, status) ==
  LET r == get_pitch(x, inst, status)
  IN IF r.result.kind = "Ok" THEN [r EXCEPT !.result.value = Some(@[2])] ELSE r

\* EventInstance::pitch: Ok(self.0.get_pitch()?.0)
pitch(x, inst, status) ==
  LET r == get_pitch(x, inst, status)
  IN IF r.result.kind = "Ok" THEN [r EXCEPT !.result.value = Some(@[1])] ELSE r

\* EventInstance::final_pitch: Ok(self.0.get_pitch()?.1)
final_pitch(x, inst, status) ==
  LET r == get_pitch(x, inst, status)
  IN IF r.result.kind = "Ok" THEN [r EXCEPT !.result.value = Some(@[2])] ELSE r

\* the match of get_playback_state on result.1, then From<fmod::PlaybackState>
\* for PlaybackState: each variant is mapped to the variant of the same name
PlaybackState_from(value) ==
  CASE value = "Playing" -> "Playing"
    [] value = "Sustaining" -> "Sustaining"
    [] value = "Stopped" -> "Stopped"
    [] value = "Starting" -> "Starting"
    [] value = "Stopping" -> "Stopping"

\* EventInstance::playback_state
playback_state(x, inst, status) ==
  LET payload == <<x.instances[inst].state>>
      r == binding_call(BindingOf("EventInstance::get_playback_state"),
                        [status |-> status, payload |-> payload])
  IN [instances |-> x.instances,
      calls |-> Append(x.calls,
                       [Call("Studio_EventInstance_GetPlaybackState", status) EXCEPT
                          !.inst = inst, !.payload = payload]),
      result |-> IF r.kind = "Ok"
                 THEN [r EXCEPT !.value = Some(PlaybackState_from(PlaybackState_from(@[1])))]
                 ELSE r]

\* the timeline positions a caller sets: 0, one second, i32::MAX, i32::MAX + 1
\* and u32::MAX
TimelinePositions == {U32(0, 0), U32(0, 1000), U32(0, I32Max), U32(1, 0), U32(1, I32Max)}
\* the positions the middleware reports
TimelineAnswers == {0, 1000, -1, I32Max}

\* EventInstance::set_timeline_position
set_timeline_position(x, inst, timeline_position, status) ==
  [instances |-> x.instances,
   calls |-> Append(x.calls,
                    [Call("Studio_EventInstance_SetTimelinePosition", status) EXCEPT
                       !.inst = inst, !.n = as_i32(timeline_position)]),
   result |-> binding_call(BindingOf("EventInstance::set_timeline_position"),
                           [status |-> status, payload |-> <<>>])]

\* EventInstance::timeline_position: Ok(self.0.get_timeline_position()? as u32)
timeline_position(x, inst, envelope) ==
  LET r == binding_call(BindingOf("EventInstance::get_timeline_position"), envelope)
  IN [instances |-> x.instances,
      calls |-> Append(x.calls,
                       [Call("Studio_EventInstance_GetTimelinePosition", envelope.status)
                          EXCEPT !.inst = inst, !.payload = envelope.payload]),
      result |-> IF r.kind = "Ok" THEN [r EXCEPT !.value = Some(as_u32(@[1]))] ELSE r]

\* an operation on the instances returned x
Returned(x) ==
  /\ mw_instances' = x.instances
  /\ calls' = x.calls
  /\ result' = x.result
  /\ UNCHANGED <<debug_assertions, engine_vars, mw_banks, mw_listener, loaded, game>>

\* The operations of EventInstance that hand their arguments to one method of
\* the binding and return its payload, or one component of it (0: none):
\* nothing the middleware keeps for them is modelled.
PassThroughOperations ==
  {[name |-> "set_property", method |-> "EventInstance::set_property", component |-> 0],
   [name |-> "property", method |-> "EventInstance::get_property", component |-> 1],
   [name |-> "set_volume", method |-> "EventInstance::set_volume", component |-> 0],
   [name |-> "volume", method |-> "EventInstance::get_volume", component |-> 1],
   [name |-> "final_volume", method |-> "EventInstance::get_volume", component |-> 2],
   [name |-> "is_virtual", method |-> "EventInstance::is_virtual", component |-> 1],
   [name |-> "get_position_velocity", method |-> "EventInstance::get_3d_attributes",
    component |-> 1],
   [name |-> "set_parameter_by_name", method |-> "EventInstance::set_parameter_by_name",
    component |-> 0],
   [name |-> "get_parameter_by_name", method |-> "EventInstance::get_parameter_by_name",
    component |-> 1],
   [name |-> "get_final_parameter_by_name",
    method |-> "EventInstance::get_parameter_by_name", component |-> 2],
   [name |-> "pause", method |-> "EventInstance::set_paused", component |-> 0],
   [name |-> "unpause", method |-> "EventInstance::set_paused", component |-> 0],
   [name |-> "is_paused", method |-> "EventInstance::get_paused", component |-> 1]}

pass_through(x, inst, o, envelope) ==
  LET b == BindingOf(o.method)
      r == binding_call(b, envelope)
  IN [instances |-> x.instances,
      calls |-> Append(x.calls,
                       [Call(b.function, envelope.status) EXCEPT
                          !.inst = inst, !.payload = envelope.payload]),
      result |-> IF r.kind = "Ok" /\ o.component # 0
                 THEN [r EXCEPT !.value = Some(@[o.component])]
                 ELSE r]

\* the holder of instance handle `inst` calls an operation of EventInstance
Start ==
  /\ Live
  /\ \E inst \in DOMAIN mw_instances, status \in Status :
       /\ Returned(start(Mw, inst, Answer(mw_instances, inst, status)))
       /\ op' = [Op("start") EXCEPT !.inst = inst]

MarkForRelease ==
  /\ Live
  /\ \E inst \in DOMAIN mw_instances, status \in Status :
       /\ Returned(mark_for_release(Mw, inst, Answer(mw_instances, inst, status)))
       /\ op' = [Op("mark_for_release") EXCEPT !.inst = inst]

Stop ==
  /\ Live
  /\ \E inst \in DOMAIN mw_instances, status \in Status :
       /\ Returned(stop(Mw, inst, Answer(mw_instances, inst, status)))
       /\ op' = [Op("stop") EXCEPT !.inst = inst]

StopImmediately ==
  /\ Live
  /\ \E inst \in DOMAIN mw_instances, status \in Status :
       /\ Returned(stop_immediately(Mw, inst, Answer(mw_instances, inst, status)))
       /\ op' = [Op("stop_immediately") EXCEPT !.inst = inst]

SetPitch ==
  /\ Live
  /\ \E inst \in DOMAIN mw_instances, p \in Pitches, status \in Status :
       /\ Returned(set_pitch(Mw, inst, p, Answer(mw_instances, inst, status)))
       /\ op' = [Op("set_pitch") EXCEPT !.inst = inst, !.pitch = p]

Pitch ==
  /\ Live
  /\ \E inst \in DOMAIN mw_instances, status \in Status :
       /\ Returned(pitch(Mw, inst, Answer(mw_instances, inst, status)))
       /\ op' = [Op("pitch") EXCEPT !.inst = inst]

FinalPitch ==
  /\ Live
  /\ \E inst \in DOMAIN mw_instances, status \in Status :
       /\ Returned(final_pitch(Mw, inst, Answer(mw_instances, inst, status)))
       /\ op' = [Op("final_pitch") EXCEPT !.inst = inst]

QueryPlaybackState ==
  /\ Live
  /\ \E inst \in DOMAIN mw_instances, status \in Status :
       /\ Returned(playback_state(Mw, inst, Answer(mw_instances, inst, status)))
       /\ op' = [Op("playback_state") EXCEPT !.inst = inst]

SetTimelinePosition ==
  /\ Live
  /\ \E inst \in DOMAIN mw_instances, t \in TimelinePositions, status \in Status :
       /\ Returned(set_timeline_position(Mw, inst, t, Answer(mw_instances, inst, status)))
       /\ op' = [Op("set_timeline_position") EXCEPT
                   !.inst = inst, !.timeline_position = t]

TimelinePosition ==
  /\ Live
  /\ \E inst \in DOMAIN mw_instances, t \in TimelineAnswers, status \in Status :
       /\ Returned(timeline_position(Mw, inst,
                     [status |-> Answer(mw_instances, inst, status), payload |-> <<t>>]))
       /\ op' = [Op("timeline_position") EXCEPT !.inst = inst]

SetPositionVelocity ==
  /\ Live
  /\ \E inst \in DOMAIN mw_instances, pose \in InstancePoses, status \in Status :
       /\ Returned(set_position_velocity(Mw, inst, pose[1], pose[2],
                                         Answer(mw_instances, inst, status)))
       /\ op' = [Op("set_position_velocity") EXCEPT
                   !.inst = inst, !.position = pose[1], !.velocity = pose[2]]

PassThroughOperation ==
  /\ Live
  /\ \E inst \in DOMAIN mw_instances, o \in PassThroughOperations, status \in Status :
       \E payload \in [1..BindingOf(o.method).payload -> Payloads] :
         /\ Returned(pass_through(Mw, inst, o,
                       [status |-> Answer(mw_instances, inst, status),
                        payload |-> payload]))
         /\ op' = [Op(o.name) EXCEPT !.inst = inst]

CreateEventInstance ==
  /\ Live
  /\ Len(mw_instances) < MaxInstances
  /\ \E event_name \in EventNames, st \in GetEventOracles(2) :
       /\ Returned(create_event_instance(mw_instances, event_name, st))
       /\ op' = [Op("create_event_instance") EXCEPT !.event_name = event_name]

EventInstanceCount ==
  /\ Live
  /\ \E event_name \in EventNames, st \in GetEventOracles(2) :
       /\ Returned(event_instance_count(mw_instances, event_name, st))
       /\ op' = [Op("event_instance_count") EXCEPT !.event_name = event_name]

IsEventPlaying ==
  /\ Live
  /\ \E event_name \in EventNames, st \in GetEventOracles(2) :
       /\ Returned(is_event_playing(mw_instances, event_name, st))
       /\ op' = [Op("is_event_playing") EXCEPT !.event_name = event_name]

PlayEvent ==
  /\ Live
  /\ Len(mw_instances) < MaxInstances
  /\ \E event_name \in EventNames, st \in GetEventOracles(4) :
       /\ Returned(play_event(mw_instances, event_name, st))
       /\ op' = [Op("play_event") EXCEPT !.event_name = event_name]

PlayEventWithPosition ==
  /\ Live
  /\ Len(mw_instances) < MaxInstances
  /\ \E event_name \in EventNames, position \in Vec2s, st \in GetEventOracles(5) :
       /\ Returned(play_event_with_position(mw_instances, event_name, position, st))
       /\ op' = [Op("play_event_with_position") EXCEPT
                   !.event_name = event_name, !.position = position]

PlayEventWithPositionVelocity ==
  /\ Live
  /\ Len(mw_instances) < MaxInstances
  /\ \E event_name \in EventNames, position \in Vec2s, velocity \in Vec2s,
           st \in GetEventOracles(5) :
       /\ Returned(play_event_with_position_velocity(mw_instances, event_name, position,
                                                     velocity, st))
       /\ op' = [Op("play_event_with_position_velocity") EXCEPT
                   !.event_name = event_name, !.position = position,
                   !.velocity = velocity]

\* -------------------------------------------------- main.rs: the demo driver
\* the event the driver plays
DemoEvent == "event:/Music/Level 02"
\* the buffers setup() loads (two banks stand for the three of the demo)
DemoBuffers == <<1, 2>>

\* one `if game.tick_count == next_check() { .. }` block of tick: the operations
\* it calls in order, their argument where the script has two values for it, and
\* whether their results are unwrapped.  A pitch is a whole number here: 2 is
\* the script's 1.5.
Block(ops, arg, unwrapped) == [ops |-> ops, arg |-> arg, unwrapped |-> unwrapped]
DemoScript ==
  <<Block(<<"event_names">>, 0, FALSE),
    Block(<<"play_event">>, 0, FALSE),
    Block(<<"set_global_mute">>, TRUE, TRUE),
    Block(<<"set_global_mute">>, FALSE, TRUE),
    Block(<<"is_event_playing">>, 0, FALSE),
    Block(<<"event_instance_count">>, 0, FALSE),
    Block(<<"set_global_parameter">>, 0, FALSE),
    Block(<<"set_listener_position_velocity">>, 0, FALSE),
    Block(<<"listener_position", "listener_velocity">>, 0, FALSE),
    Block(<<"set_pitch">>, 2, TRUE),
    Block(<<"pitch", "final_pitch">>, 0, FALSE),
    Block(<<"set_pitch">>, 1, TRUE),
    Block(<<"set_volume">>, 0, TRUE),
    Block(<<"volume", "final_volume">>, 0, FALSE),
    Block(<<"set_volume">>, 1, TRUE),
    Block(<<"pause">>, 0, TRUE),
    Block(<<"is_paused">>, 0, FALSE),
    Block(<<"unpause">>, 0, TRUE),
    Block(<<"set_timeline_position">>, 5000, TRUE),
    Block(<<"timeline_position">>, 0, FALSE),
    Block(<<"is_virtual">>, 0, FALSE),
    Block(<<"stop">>, 0, TRUE),
    Block(<<"playback_state">>, 0, FALSE),
    Block(<<"start">>, 0, TRUE),
    Block(<<"set_property">>, 1, TRUE),
    Block(<<"property">>, 0, FALSE),
    Block(<<"set_parameter_by_name">>, 70, TRUE),
    Block(<<"get_parameter_by_name", "get_final_parameter_by_name">>, 0, FALSE),
    Block(<<"set_position_velocity">>, 0, TRUE),
    Block(<<"get_position_velocity">>, 0, FALSE),
    Block(<<"mark_for_release">>, 0, TRUE),
    Block(<<"stop_immediately">>, 0, TRUE),
    Block(<<"unload_banks">>, 0, TRUE)>>

\* the operations of the script that are called on the engine
EngineOps ==
  {"event_names", "play_event", "set_global_mute", "is_event_playing",
   "event_instance_count", "set_global_parameter", "set_listener_position_velocity",
   "listener_position", "listener_velocity", "unload_banks"}

\* mutant: every check is made against the first check tick
next_check_first(check_tick) == 144

\* let mut next_check = || { check_tick += 144; check_tick };
next_check(check_tick) == check_tick + 144

\* The driver threads g = [instances, calls, result, listener_position,
\* listener_velocity, mw_listener, mw_banks, current, steps]: the middleware and
\* engine state a tick has reached, game.current, and the blocks it has run.

\* game.current = engine.play_event(..).ok(), r being what play_event returned
played(g, r) ==
  [g EXCEPT !.instances = r.instances, !.calls = @ \o r.calls,
            !.result = r.result,
            !.current = IF r.result.kind = "Ok" THEN Some(r.result.inst)
                        ELSE None]

\* a query of the engine has returned r
queried(g, r) == [g EXCEPT !.calls = @ \o r.calls, !.result = r.result]

\* an operation on game.current has returned y
operated(g, y) ==
  [g EXCEPT !.instances = y.instances, !.calls = y.calls, !.result = y.result]

\* an operation of the script on the engine; st are the statuses of its calls
engine_op(name, arg, g, st) ==
  CASE name = "play_event" -> played(g, play_event(g.instances, DemoEvent, st))
    [] name = "is_event_playing" ->
         queried(g, is_event_playing(g.instances, DemoEvent, st))
    [] name = "event_instance_count" ->
         queried(g, event_instance_count(g.instances, DemoEvent, st))
    [] name = "set_global_mute" ->
         [g EXCEPT !.calls = @ \o set_global_mute_calls(arg, st),
                   !.result = set_global_mute_on("interop", st)]
    [] name = "set_global_parameter" ->
         [g EXCEPT !.calls = Append(@, set_global_parameter_call("Area", 70, st[1])),
                   !.result = set_global_parameter_result(st[1])]
    [] name = "set_listener_position_velocity" ->
         LET r == Studio_set_listener_attributes(st[1])
             attrs == Attributes3d(<<15, 15>>, <<5, 5>>)
         IN [g EXCEPT !.calls = Append(@, [Call("Studio_System_SetListenerAttributes", st[1])
                                            EXCEPT !.n = 0, !.attrs = Some(attrs),
                                                   !.attenuation = None]),
                      !.result = r,
                      !.mw_listener = IF st[1] = 0 THEN Some(attrs) ELSE @,
                      !.listener_position = IF r.kind = "Ok" THEN <<15, 15>> ELSE @,
                      !.listener_velocity = IF r.kind = "Ok" THEN <<5, 5>> ELSE @]
    [] name = "unload_banks" ->
         [g EXCEPT !.calls = Append(@, Call("Studio_System_UnloadAll", st[1])),
                   !.result = IF Studio_unload_all(st[1]).kind = "Ok" THEN OkResult
                              ELSE PanicResult,
                   !.mw_banks = IF st[1] = 0 THEN <<>> ELSE @]
    [] OTHER -> [g EXCEPT !.result = OkResult]

\* an operation of the script on game.current.as_ref().unwrap(); `status` is what
\* the middleware answers for an instance it holds, t the position it reports
instance_op(name, arg, g, status, t) ==
  IF g.current = None THEN [g EXCEPT !.result = PanicResult]
  ELSE
    LET inst == g.current[1]
        a == Answer(g.instances, inst, status)
        x == [instances |-> g.instances, calls |-> g.calls, result |-> g.result]
    IN operated(g,
         CASE name = "set_pitch" -> set_pitch(x, inst, arg, a)
         [] name = "pitch" -> pitch(x, inst, a)
         [] name = "final_pitch" -> final_pitch(x, inst, a)
         [] name = "stop" -> stop(x, inst, a)
         [] name = "stop_immediately" -> stop_immediately(x, inst, a)
         [] name = "start" -> start(x, inst, a)
         [] name = "mark_for_release" -> mark_for_release(x, inst, a)
         [] name = "playback_state" -> playback_state(x, inst, a)
         [] name = "set_position_velocity" ->
              set_position_velocity(x, inst, <<2, 2>>, <<4, 4>>, a)
         [] name = "set_timeline_position" ->
              set_timeline_position(x, inst, U32(0, arg), a)
         [] name = "timeline_position" ->
              timeline_position(x, inst, [status |-> a, payload |-> <<t>>])
         [] OTHER ->
              LET o == CHOOSE o \in PassThroughOperations : o.name = name
              IN pass_through(x, inst, o,
                   [status |-> a,
                    payload |-> [k \in 1..BindingOf(o.method).payload |-> 5]]))

\* the body of one block, from its operation i on: a failed unwrap ends it
RECURSIVE run_block(_, _, _, _, _)
RECURSIVE unwrap_op(_, _, _, _, _)
run_block(block, i, g, st, t) ==
  IF i > Len(block.ops) THEN g
  ELSE unwrap_op(block, i,
         IF block.ops[i] \in EngineOps THEN engine_op(block.ops[i], block.arg, g, st)
         ELSE instance_op(block.ops[i], block.arg, g, st[i], t),
         st, t)

\* operation i of the block has left h: .unwrap() of what it returned, then the
\* rest of the block
unwrap_op(block, i, h, st, t) ==
  IF h.result.kind = "Panic" \/ (block.unwrapped /\ h.result.kind # "Ok")
  THEN [h EXCEPT !.result = PanicResult]
  ELSE run_block(block, i + 1, h, st, t)

\* the blocks of tick from block j on, each guarded by
\* game.tick_count == next_check(); the last block returns false
RECURSIVE run_script(_, _, _, _, _)
run_script(j, check_tick, g, st, t) ==
  IF j > Len(DemoScript) \/ g.result.kind = "Panic" THEN g
  ELSE LET check == next_check(check_tick)
       IN IF game.tick_count = check
          THEN run_script(j + 1, check,
                 run_block(DemoScript[j], 1, [g EXCEPT !.steps = Append(@, j)], st, t),
                 st, t)
          ELSE run_script(j + 1, check, g, st, t)

\* a boundary call failed though the middleware holds the instance it is about
Spurious(cs) ==
  \E k \in DOMAIN cs :
    /\ cs[k].status # 0
    /\ cs[k].inst \in DOMAIN mw_instances => mw_instances[cs[k].inst].valid

\* how a call of tick ends
Ended(g, cs, r, instances, returned) ==
  /\ calls' = cs
  /\ result' = r
  /\ mw_instances' = instances
  /\ mw_banks' = g.mw_banks
  /\ mw_listener' = g.mw_listener
  /\ listener_position' = g.listener_position
  /\ listener_velocity' = g.listener_velocity
  /\ game' = [tick_count |-> IF returned = "true" THEN game.tick_count + 1
                            ELSE game.tick_count,
              current |-> g.current,
              steps |-> g.steps,
              returned |-> returned,
              scheduled |-> (returned = "true"),
              spurious |-> (game.spurious \/ Spurious(cs))]
  /\ op' = Op("tick")
  /\ UNCHANGED <<debug_assertions, handle, event_names, asset_id, loaded>>

\* One call of tick, made for a scheduled frame (wasm32) or by the loop
\* (x86_64): the script, then game.engine.update().unwrap(); game.tick_count += 1.
\* the script has run and left g: a failed unwrap, the return of the last block,
\* or game.engine.update().unwrap(); game.tick_count += 1; true
TickEnds(g, c, su) ==
  IF g.result.kind = "Panic"
  THEN Ended(g, g.calls, PanicResult, g.instances, "panic")
  ELSE IF Len(DemoScript) \in Range(g.steps)
  THEN Ended(g, g.calls, OkResult, g.instances, "false")
  ELSE IF asset_id = None
  THEN Ended(g, g.calls, OkResult, g.instances, "true")
  ELSE IF Studio_update(su).kind # "Ok"
  THEN Ended(g, Append(g.calls, c), PanicResult, g.instances, "panic")
  ELSE \E instances \in Tick(g.instances) :
         Ended(g, Append(g.calls, c), OkResult, instances, "true")

\* the statuses Studio_System_Update answers a tick with: Ok, or a failure
UpdateStatus == {0, FMODResult.ErrInvalidHandle}

\* what tick starts from
Entered ==
  [instances |-> mw_instances, calls |-> <<>>, result |-> OkResult,
   listener_position |-> listener_position, listener_velocity |-> listener_velocity,
   mw_listener |-> mw_listener, mw_banks |-> mw_banks,
   current |-> game.current, steps |-> <<>>]

\* The statuses st of a block's calls and the position t the middleware reports
\* are looked at in a tick that runs a block: the script is run with every
\* choice of them when it runs a block with the first choice.
Scripts ==
  UNION {IF g.steps = <<>> THEN {g}
         ELSE {run_script(1, 0, Entered, st, t) :
                 st \in Oracles(4), t \in TimelineAnswers} :
         g \in {run_script(1, 0, Entered, [k \in 1..4 |-> 0], 0)}}

\* su is the status of the update
DemoTick ==
  /\ game.scheduled
  /\ \E g \in Scripts, su \in UpdateStatus :
       TickEnds(g, Call("Studio_System_Update", su), su)

\* ----------------------------------------------------------- specifications
\* The listener pose, the bank bookkeeping and the event instances are disjoint
\* parts of the state: no operation of one part reads or writes another part.
\* Each part is explored under its own next-state relation, with the
\* operations every part shares (new, update, unload_banks).
NextListener ==
  \/ New
  \/ SetListenerPositionVelocity
  \/ SetListenerPosition
  \/ SetListenerVelocity
  \/ SetGlobalMute
  \/ SetGlobalParameter
  \/ Update
  \/ UnloadBanks

NextBanks ==
  \/ New
  \/ LoadBankFilesFromMemory
  \/ UnloadBanks
  \/ Update

NextPlay ==
  \/ New
  \/ CreateEventInstance
  \/ PlayEvent
  \/ PlayEventWithPosition
  \/ PlayEventWithPositionVelocity
  \/ EventInstanceCount
  \/ IsEventPlaying
  \/ Update
  \/ UnloadBanks

NextBinding ==
  \/ StudioMethod
  \/ BankMethod
  \/ EventDescriptionMethod
  \/ EventInstanceMethod
  \/ BusMethod

\* An engine that has loaded bank 1 as asset 1 and has then created an instance
\* of event:/a: the state after new(live_update),
\* load_bank_files_from_memory(1, [bank 1]) and create_event_instance("event:/a")
\* have returned Ok.
InitInstance ==
  LET created == create_event_instance(<<>>, "event:/a", [k \in 1..2 |-> 0])
  IN /\ debug_assertions = FALSE
     /\ handle = Some("studio")
     /\ event_names = BankEvents(1)
     /\ asset_id = Some(1)
     /\ listener_position = ZERO
     /\ listener_velocity = ZERO
     /\ mw_banks = <<1>>
     /\ mw_listener = None
     /\ mw_instances = created.instances
     /\ op = [Op("create_event_instance") EXCEPT !.event_name = "event:/a"]
     /\ calls = created.calls
     /\ result = created.result
     /\ loaded = TRUE
     /\ game = NoGame

NextInstance ==
  \/ Start
  \/ MarkForRelease
  \/ Stop
  \/ StopImmediately
  \/ SetPitch
  \/ Pitch
  \/ FinalPitch
  \/ QueryPlaybackState
  \/ SetPositionVelocity
  \/ SetTimelinePosition
  \/ TimelinePosition
  \/ PassThroughOperation
  \/ Update

\* the operations that hand 3D attributes to the middleware
NextPose ==
  \/ SetListenerPositionVelocity
  \/ SetListenerPosition
  \/ SetListenerVelocity
  \/ SetPositionVelocity

\* The state in which main calls tick for the first time, in a debug build:
\* setup() has returned, AudioEngine::new(true) and load_bank_files_from_memory
\* were unwrapped, and the first frame is scheduled.
InitDriver ==
  LET out == load_buffers(DemoBuffers, 1, [k \in 1..(3 * Len(DemoBuffers)) |-> 0],
                          [e \in EventPaths |-> 0],
                          [names |-> <<>>, banks |-> <<>>, calls |-> <<>>,
                           result |-> OkResult])
  IN /\ debug_assertions = TRUE
     /\ handle = Some("studio")
     /\ event_names = out.names
     /\ asset_id = Some(1)
     /\ listener_position = ZERO
     /\ listener_velocity = ZERO
     /\ mw_banks = out.banks
     /\ mw_listener = None
     /\ mw_instances = <<>>
     /\ op = [Op(LoadOp) EXCEPT !.asset_id = 1, !.buffers = DemoBuffers]
     /\ calls = out.calls
     /\ result = out.result
     /\ loaded = TRUE
     /\ game = [NoGame EXCEPT !.scheduled = TRUE]

NextDriver == DemoTick

Next ==
  \/ NextListener
  \/ NextBanks
  \/ NextPlay
  \/ NextBinding
  \/ NextInstance
  \/ NextPose
  \/ NextDriver

Spec == Init /\ [][Next]_vars
SpecBinding == Init /\ [][NextBinding]_vars
SpecInstance == InitInstance /\ [][NextInstance]_vars
SpecListener == Init /\ [][NextListener]_vars
SpecBanks == Init /\ [][NextBanks]_vars
SpecPlay == InitAnyBuild /\ [][NextPlay]_vars
SpecPose == InitInstance /\ [][NextPose]_vars
SpecDriver == InitDriver /\ [][NextDriver]_vars

\* ------------------------------------------------------------------ claims
ListenerOps ==
  {"set_listener_position_velocity", "set_listener_position", "set_listener_velocity"}
PlayOps == {"play_event", "play_event_with_position", "play_event_with_position_velocity"}

\* the boundary calls of `cs` to one of the functions `fns`, in order
CallsTo(cs, fns) == SelectSeq(cs, LAMBDA c : c.fn \in fns)
\* the 2D pose an accepted 3D listener attribute set stands for
PoseOf(attrs) ==
  <<<<attrs.position[1], attrs.position[2]>>, <<attrs.velocity[1], attrs.velocity[2]>>>>

\* C1: when the middleware rejects the listener-attributes call of
\* set_listener_position_velocity, set_listener_position or
\* set_listener_velocity, the operation returns an error and listener_position
\* and listener_velocity keep the values they had before the call.
C1_RejectedListenerCallKeepsPose ==
  [][(op'.name \in ListenerOps /\ calls'[1].status # 0)
       => /\ result'.kind = "Err"
          /\ listener_position' = listener_position
          /\ listener_velocity' = listener_velocity]_vars

\* a rejected call that asked for a pose other than the one the engine holds,
\* after an accepted call has moved the pose away from zero
C1_Witness ==
  /\ op.name \in ListenerOps
  /\ calls[1].status # 0
  /\ result.kind = "Err"
  /\ listener_position # ZERO
  /\ PoseOf(calls[1].attrs[1]) # <<listener_position, listener_velocity>>

\* C2: in every reachable state the pose the engine holds is (ZERO, ZERO) while
\* the middleware has accepted no listener-attributes call, and otherwise it is
\* the position and velocity of the call the middleware accepted last: never
\* the position of one call with the velocity of another.
C2_PoseIsLastAcceptedCall ==
  handle # None =>
    <<listener_position, listener_velocity>> =
      IF mw_listener = None THEN <<ZERO, ZERO>> ELSE PoseOf(mw_listener[1])

\* set_listener_velocity was accepted after a position was set by another call,
\* and later a call asking for another pose was rejected
C2_Witness ==
  /\ op.name = "set_listener_position"
  /\ result.kind = "Err"
  /\ op.position = ZERO
  /\ listener_position = <<1, 2>>
  /\ listener_velocity = <<3, 4>>

\* C3: load_bank_files_from_memory records its asset_id exactly when every
\* buffer was loaded and enumerated without error; when a bank load, an event
\* count query or an event list query fails, the call returns that call's
\* error and asset_id is unchanged.
LoadFns ==
  {"Studio_System_LoadBankMemory", "Studio_Bank_GetEventCount", "Studio_Bank_GetEventList"}

C3_AssetIdOnlyOnFullSuccess ==
  [][op'.name = LoadOp =>
       LET made == CallsTo(calls', LoadFns)
           failed == SelectSeq(made, LAMBDA c : c.status # 0)
       IN IF failed = <<>>
          THEN /\ result'.kind = "Ok"
               /\ Len(made) = 3 * Len(op'.buffers)
               /\ asset_id' = Some(op'.asset_id)
          ELSE /\ result' = err_fmod(failed[1].fn, FMODResult_from(failed[1].status))
               /\ asset_id' = asset_id]_vars

\* a load that failed after loading one bank, in an engine that holds the
\* asset id of an earlier load
C3_Witness ==
  /\ op.name = LoadOp
  /\ result.kind = "Err"
  /\ Len(calls) > 3
  /\ asset_id # None
  /\ asset_id # Some(op.asset_id)

\* C4: load_bank_files_from_memory loads the buffers in slice order and stops
\* at the first buffer whose load fails: when buffer i fails to load, the bank
\* loads made are those of buffers 1..i in order, no later buffer is passed to
\* the middleware, banks 1..i-1 stay resident, and the names pushed for them
\* stay in event_names.
C4_FailFastNoRollback ==
  [][(/\ op'.name = LoadOp
      /\ calls' # <<>>
      /\ calls'[Len(calls')].fn = "Studio_System_LoadBankMemory"
      /\ calls'[Len(calls')].status # 0)
       => LET loads == CallsTo(calls', {"Studio_System_LoadBankMemory"})
              i == Len(loads)
              earlier == SubSeq(op'.buffers, 1, i - 1)
              queries == CallsTo(calls', {"Studio_EventDescription_GetPath"})
              answered == SelectSeq(queries, LAMBDA c : c.status = 0)
          IN /\ i <= Len(op'.buffers)
             /\ [k \in 1..i |-> loads[k].bank] = SubSeq(op'.buffers, 1, i)
             /\ \A k \in 1..(i - 1) : loads[k].status = 0
             /\ mw_banks' = mw_banks \o earlier
             /\ [k \in 1..Len(queries) |-> queries[k].path] =
                  Flatten([k \in 1..(i - 1) |-> BankEvents(earlier[k])])
             /\ event_names' =
                  event_names \o [k \in 1..Len(answered) |-> answered[k].path]
             /\ result'.kind = "Err"]_vars

\* the second buffer of a call failed to load: the first bank is resident and
\* its names are listed
C4_Witness ==
  /\ op.name = LoadOp
  /\ Len(op.buffers) = 2
  /\ result.kind = "Err"
  /\ Len(calls) > 3
  /\ calls[Len(calls)].fn = "Studio_System_LoadBankMemory"
  /\ mw_banks = <<op.buffers[1]>>
  /\ event_names = BankEvents(op.buffers[1])

\* C5: after load_bank_files_from_memory succeeds, event_names holds every
\* event path of the banks loaded in the middleware, each exactly once, bank
\* after bank in load order and in the order of the events within each bank.
C5_NamesAreThePathsOfTheLoadedBanks ==
  (op.name = LoadOp /\ result.kind = "Ok") =>
    event_names = Flatten([k \in 1..Len(mw_banks) |-> BankEvents(mw_banks[k])])

\* C6 as stated: once asset_id is Some(x) it stays Some(x) whatever operation
\* follows.
C6_AssetIdSetOnce ==
  [][asset_id # None => asset_id' = asset_id]_vars

\* C6 as amended: once asset_id is Some it is never None again, and its value
\* changes only in a load_bank_files_from_memory call that returns Ok, to the
\* asset id of that call.
C6_AssetIdStaysSomeAndChangesOnlyOnLoad ==
  [][asset_id # None =>
       /\ asset_id' # None
       /\ asset_id' # asset_id =>
            /\ op'.name = LoadOp
            /\ result'.kind = "Ok"
            /\ asset_id' = Some(op'.asset_id)]_vars

\* the banks were unloaded after a load recorded asset id 2 and three names:
\* the id is still held
C6_Witness ==
  /\ op.name = "unload_banks"
  /\ result.kind = "Ok"
  /\ asset_id = Some(2)
  /\ Len(event_names) = 3

\* C7: while no load_bank_files_from_memory call has returned Ok, update
\* returns Ok and makes no boundary call; once one has, update makes exactly
\* one Studio_System_Update call and returns Ok or that call's error.
C7_UpdateIsNoOpUntilLoaded ==
  op.name = "update" =>
    IF ~loaded
    THEN calls = <<>> /\ result = OkResult
    ELSE /\ Len(calls) = 1
         /\ calls[1].fn = "Studio_System_Update"
         /\ result = IF calls[1].status = 0 THEN OkResult
                     ELSE err_fmod("Studio_System_Update",
                                   FMODResult_from(calls[1].status))

\* an update after a load and an unload: the middleware is still pumped, and
\* its failure is returned
C7_Witness ==
  /\ op.name = "update"
  /\ loaded
  /\ mw_banks = <<>>
  /\ result.kind = "Err"

\* C8: whenever the middleware fails to create or to initialize the studio
\* system, AudioEngine::new returns an error: it does not panic and yields
\* no engine.
C8_NewReturnsInitializationError ==
  (op.name = "new" /\ \E k \in DOMAIN calls : calls[k].status # 0) =>
    result.kind = "Err" /\ handle = None

\* C9: unload_banks makes exactly one Studio_System_UnloadAll call; when the
\* middleware reports a failure the process panics, otherwise the operation
\* returns; it never produces an error value.
C9_UnloadPanicsOnFailure ==
  op.name = "unload_banks" =>
    /\ Len(calls) = 1
    /\ calls[1].fn = "Studio_System_UnloadAll"
    /\ result = IF calls[1].status = 0 THEN OkResult ELSE PanicResult

\* an unload the middleware refused, with banks resident
C9_Witness ==
  /\ op.name = "unload_banks"
  /\ calls[1].status # 0
  /\ result.kind = "Panic"
  /\ mw_banks # <<>>

\* C10: an instance returned as Ok by play_event, play_event_with_position or
\* play_event_with_position_velocity was, in this order and once each, created
\* from the description looked up for the event name, given its 3D attributes
\* (the positioned variants only; play_event_with_position with velocity
\* ZERO), started, and marked for release.
ExpectedPlayCalls(o, inst) ==
  LET lookup == [Call("Studio_System_GetEvent", 0) EXCEPT !.path = o.event_name]
      create == [Call("Studio_EventDescription_CreateInstance", 0) EXCEPT
                   !.path = o.event_name]
      velocity == IF o.name = "play_event_with_position" THEN ZERO ELSE o.velocity
      place == [Call("Studio_EventInstance_Set3DAttributes", 0) EXCEPT
                  !.inst = inst,
                  !.attrs = Some([position |-> <<o.position[1], o.position[2], 0>>,
                                  velocity |-> <<velocity[1], velocity[2], 0>>,
                                  forward |-> <<0, 1, 0>>, up |-> <<0, 0, 1>>])]
      begin == [Call("Studio_EventInstance_Start", 0) EXCEPT !.inst = inst]
      release == [Call("Studio_EventInstance_Release", 0) EXCEPT !.inst = inst]
  IN IF o.name = "play_event" THEN <<lookup, create, begin, release>>
     ELSE <<lookup, create, place, begin, release>>

C10_PlayedInstanceIsCreatedPlacedStartedReleased ==
  (op.name \in PlayOps /\ result.kind = "Ok") =>
    /\ result.inst \in DOMAIN mw_instances
    /\ calls = ExpectedPlayCalls(op, result.inst)
    /\ mw_instances[result.inst].desc = op.event_name
    /\ mw_instances[result.inst].started
    /\ mw_instances[result.inst].released

\* play_event_with_position returned an instance placed away from the origin
C10_Witness ==
  /\ op.name = "play_event_with_position"
  /\ result.kind = "Ok"
  /\ op.position = <<3, 4>>
  /\ mw_instances[result.inst].attrs # None

\* C11: when the middleware does not know the path (Studio_System_GetEvent
\* answers ErrEventNotFound), play_event and its variants return that error,
\* make no other boundary call (no create-instance, start or release), and
\* leave the middleware's instances, hence every instance count, unchanged.
C11_UnknownPathCreatesNoInstance ==
  [][(/\ op'.name \in PlayOps
      /\ calls' # <<>>
      /\ calls'[1].fn = "Studio_System_GetEvent"
      /\ calls'[1].status = FMODResult.ErrEventNotFound)
     => /\ result' = err_fmod("Studio_System_GetEvent", FMODResult.ErrEventNotFound)
        /\ Len(calls') = 1
        /\ mw_instances' = mw_instances
        /\ \A e \in EventNames :
             instance_count(mw_instances', e) = instance_count(mw_instances, e)]_vars

\* play_event on an unknown path returned event-not-found and no instance exists
C11_Witness ==
  /\ op.name = "play_event"
  /\ result.kind = "Err"
  /\ result.code = FMODResult.ErrEventNotFound
  /\ result.function = "Studio_System_GetEvent"
  /\ \A e \in EventNames : instance_count(mw_instances, e) = 0

\* the status the boundary function of the last call answered with
LastStatus == calls[Len(calls)].status

\* C12: FMODResult::from is defined on every i32 status: 0 gives Ok, each v in
\* 1..81 gives the failure variant whose discriminant is v (so `as i32` gives v
\* back), and every other value gives the catch-all ErrUnknown.
C12_FromIsTotal ==
  calls # <<>> =>
    LET v == LastStatus
        variant == FMODResult_variant(v)
    IN /\ variant \in DOMAIN FMODResult
       /\ v = 0 => variant = "Ok"
       /\ v \in 1..81 => variant \notin {"Ok", "ErrUnknown"} /\ FMODResult[variant] = v
       /\ v \notin 0..81 => variant = "ErrUnknown"

\* a negative status was returned and came out as the catch-all variant
C12_Witness ==
  /\ calls # <<>>
  /\ LastStatus < 0
  /\ result.kind = "Err"
  /\ result.code = FMODResult.ErrUnknown

\* C13: the error a binding method makes of a status other than Ok carries the
\* name of the boundary function the method called, and an empty message.
C13_ErrorNamesTheCalledFunction ==
  (calls # <<>> /\ result.kind = "Err") =>
    /\ result.function = calls[Len(calls)].fn
    /\ result.message = ""

\* C14 as claimed: the error carries the status code the boundary function
\* returned, whether the code is in the table 1..81 or not.
C14_ErrorCarriesTheReportedCode ==
  (calls # <<>> /\ result.kind = "Err") => result.code = LastStatus

\* C14 as amended: the error carries the status code c the boundary function
\* returned when c is in 1..81, and 82 (ErrUnknown) for every other non-zero c.
C14_ErrorCarriesTheVariantOfTheCode ==
  (calls # <<>> /\ result.kind = "Err") =>
    /\ LastStatus # 0
    /\ result.code = IF LastStatus \in 1..81 THEN LastStatus ELSE 82

\* a status outside the table came out as code 82
C14_Witness ==
  /\ calls # <<>>
  /\ LastStatus = 99
  /\ result.kind = "Err"
  /\ result.code = 82

\* C15: every method of the binding returns Ok, with the payload of the
\* envelope, exactly when the status the boundary function reported is 0, and
\* Err without a payload for every other status.
C15_StatusDecidesTheResult ==
  (calls # <<>> /\ op.name \in {b.method : b \in Bindings}) =>
    /\ result.kind = "Ok" <=> LastStatus = 0
    /\ result.kind = "Ok" => result.value = calls[Len(calls)].payload
    /\ result.kind = "Err" => result.value = None

\* the operations of EventInstance
InstanceOps ==
  {"start", "mark_for_release", "stop", "stop_immediately", "set_pitch", "pitch",
   "final_pitch", "playback_state", "set_position_velocity",
   "set_timeline_position", "timeline_position"}
    \cup {o.name : o \in PassThroughOperations}

C17_InvalidInstanceIsStopped ==
  (op.name = "playback_state" /\ ~mw_instances[op.inst].valid)
    => result.kind = "Ok" /\ result.value = Some("Stopped")

\* C18 as claimed: a set_pitch(p) that returns Ok sets the pitch pitch() then
\* returns, and final_pitch() differs from the pitch only on an instance that
\* has seen an update() frame with active modulation.
C18_FinalPitchDiffersOnlyAfterModulation ==
  [][/\ (op'.name = "set_pitch" /\ result'.kind = "Ok")
          => mw_instances'[op'.inst].pitch = op'.pitch
     /\ (op'.name = "pitch" /\ result'.kind = "Ok")
          => result'.value = Some(mw_instances[op'.inst].pitch)
     /\ (/\ op'.name = "final_pitch"
         /\ result'.kind = "Ok"
         /\ result'.value # Some(mw_instances[op'.inst].pitch))
          => mw_instances[op'.inst].modulated]_vars

\* C18 as amended: a set_pitch(p) that returns Ok sets the pitch pitch() then
\* returns; final_pitch() returns the final pitch of the last frame, which
\* differs from the pitch only on an instance that has seen an update() frame
\* with active modulation or whose pitch was set after the last frame.
C18_FinalPitchIsOfTheLastFrame ==
  [][/\ (op'.name = "set_pitch" /\ result'.kind = "Ok")
          => mw_instances'[op'.inst].pitch = op'.pitch
     /\ (op'.name = "pitch" /\ result'.kind = "Ok")
          => result'.value = Some(mw_instances[op'.inst].pitch)
     /\ (op'.name = "final_pitch" /\ result'.kind = "Ok")
          => /\ result'.value = Some(mw_instances[op'.inst].final_pitch)
             /\ result'.value # Some(mw_instances[op'.inst].pitch)
                  => \/ mw_instances[op'.inst].modulated
                     \/ mw_instances[op'.inst].pending]_vars

\* pitch() returned the pitch 2 that was set, while the final pitch is another
C18_Witness ==
  /\ op.name = "pitch"
  /\ result.kind = "Ok"
  /\ result.value = Some(2)
  /\ mw_instances[op.inst].final_pitch # 2

\* C19: an operation on the interop-backed engine has the outcome (Ok, error or
\* abort) the same operation has on the native-backed engine when the
\* middleware answers alike; for set_global_mute, with the statuses the
\* middleware gave to the bus lookup and to the set-mute call.
C19_BackendParity ==
  op.name = "set_global_mute" =>
    LET st == [k \in 1..2 |-> IF k <= Len(calls) THEN calls[k].status ELSE 0]
    IN result.kind = set_global_mute_on("native", st).kind

\* the boundary functions that take 3D attributes
AttributeFns == {"Studio_System_SetListenerAttributes", "Studio_EventInstance_Set3DAttributes"}

\* C21: every 3D-attributes value handed to the middleware has the caller's 2D
\* position and velocity with a third component of 0, forward (0,1,0) and up
\* (0,0,1); the listener call uses listener index 0 and no attenuation position.
C21_AttributesAreTheLifted2DPose ==
  \A k \in DOMAIN calls :
    calls[k].fn \in AttributeFns =>
      /\ calls[k].attrs # None
      /\ LET a == calls[k].attrs[1]
         IN /\ a.forward = <<0, 1, 0>>
            /\ a.up = <<0, 0, 1>>
            /\ a.position[3] = 0
            /\ a.velocity[3] = 0
            /\ op.name \in {"set_listener_position_velocity", "set_position_velocity"} =>
                 /\ <<a.position[1], a.position[2]>> = op.position
                 /\ <<a.velocity[1], a.velocity[2]>> = op.velocity
      /\ calls[k].fn = "Studio_System_SetListenerAttributes" =>
           calls[k].n = 0 /\ calls[k].attenuation = None

\* both operations have handed a pose other than the origin to the middleware
C21_Witness ==
  /\ op.name = "set_position_velocity"
  /\ op.position = <<1, 2>> /\ op.velocity = <<3, 4>>
  /\ Len(calls) = 1 /\ calls[1].fn = "Studio_EventInstance_Set3DAttributes"
  /\ result.kind = "Ok"
  /\ mw_listener # None
  /\ mw_listener[1].position = <<3, 4, 0>>
  /\ mw_listener[1].velocity = <<1, 2, 0>>
\* C22: set_timeline_position(t) hands t to the middleware unchanged when
\* t <= i32::MAX, and never hands it a negative position made of a larger t.
C22_TimelinePositionUnchangedOrRejected ==
  op.name = "set_timeline_position" =>
    \A k \in DOMAIN calls :
      calls[k].fn = "Studio_EventInstance_SetTimelinePosition" =>
        /\ calls[k].n >= 0
        /\ op.timeline_position.top = 0 => calls[k].n = op.timeline_position.low
\* the operations of AudioEngine that take an event path
PathOps ==
  PlayOps \cup {"create_event_instance", "is_event_playing", "event_instance_count"}

\* C23: with a path that lacks the "event:/" prefix, every operation that takes
\* an event path aborts before any middleware call in a debug build; in a
\* release build no assertion fires and the path reaches the middleware unchanged.
C23_PrefixIsAssertedInDebugBuildsOnly ==
  (op.name \in PathOps /\ ~starts_with_event(op.event_name)) =>
    IF debug_assertions
    THEN result.kind = "Panic" /\ calls = <<>>
    ELSE /\ result.kind # "Panic"
         /\ calls # <<>>
         /\ calls[1].fn = "Studio_System_GetEvent"
         /\ calls[1].path = op.event_name

\* a debug build aborted in is_event_playing("sfx/a"), no middleware call made
C23_Witness ==
  /\ debug_assertions
  /\ op.name = "is_event_playing"
  /\ op.event_name = "sfx/a"
  /\ result.kind = "Panic"
  /\ calls = <<>>
\* the instance is playing: it was started and is not in the stopped state
IsPlaying(m) == m.valid /\ m.started /\ m.state # "Stopped"
PlayingCount(instances, event_name) ==
  Cardinality({i \in DOMAIN instances :
                 instances[i].desc = event_name /\ IsPlaying(instances[i])})

\* C25: event_instance_count(path) returns the number of instances of the
\* event that are playing, and is_event_playing(path) returns true exactly when
\* there is one; an instance never started, or stopped, is not counted.
C25_CountsThePlayingInstances ==
  /\ (op.name = "event_instance_count" /\ result.kind = "Ok") =>
       result.value = Some(U32(0, PlayingCount(mw_instances, op.event_name)))
  /\ (op.name = "is_event_playing" /\ result.kind = "Ok") =>
       result.value = Some(PlayingCount(mw_instances, op.event_name) > 0)
\* C24: every operation other than unload_banks returns a failure of a
\* middleware call as an error result: the failed call is the last one it makes
\* (no retry, nothing after it), and the failure is neither swallowed nor turned
\* into an abort; set_global_mute is one of these operations.
C24_FailureIsReturnedAsError ==
  op.name \notin {"", "unload_banks"} =>
    /\ \A j \in DOMAIN calls : j < Len(calls) => calls[j].status = 0
    /\ (\E k \in DOMAIN calls : calls[k].status # 0) => result.kind = "Err"
\* C26: a call of tick runs at most one block of the script, block k only when
\* tick_count = 144 * k; a call that returns true has called update exactly
\* once, as its last call, and has incremented tick_count by exactly 1; the call
\* that runs the last block (unload_banks) returns false, without calling
\* update, without incrementing tick_count and without scheduling another frame.
C26_TickIsOneFrameOfTheScript ==
  [][LET updates == CallsTo(calls', {"Studio_System_Update"})
     IN /\ Len(game'.steps) <= 1
        /\ \A i \in DOMAIN game'.steps :
             /\ game'.steps[i] \in 1..33
             /\ game.tick_count = 144 * game'.steps[i]
        /\ game'.returned = "true" =>
             /\ Len(updates) = 1
             /\ calls'[Len(calls')].fn = "Studio_System_Update"
             /\ game'.tick_count = game.tick_count + 1
             /\ game'.scheduled
             /\ 33 \notin Range(game'.steps)
        /\ (33 \in Range(game'.steps) /\ game'.returned # "panic") =>
             /\ game'.returned = "false"
             /\ updates = <<>>
             /\ calls'[Len(calls')].fn = "Studio_System_UnloadAll"
             /\ game'.tick_count = game.tick_count
             /\ ~game'.scheduled
        /\ game'.returned = "false" => game'.steps = <<33>>]_vars

\* the driver has run the last block, at tick_count 4752, and has stopped
C26_Witness ==
  /\ game.returned = "false"
  /\ game.steps = <<33>>
  /\ game.tick_count = 4752
  /\ ~game.scheduled
  /\ mw_banks = <<>>

\* C27: against a middleware that follows the instance lifecycle and reports
\* no other failure, no unwrap of the driver fails: no unwrapped operation is
\* issued on an instance the middleware has destroyed.
C27_NoUnwrapFails ==
  ~game.spurious => game.returned # "panic"
\* s is a prefix of t
IsPrefix(s, t) == Len(s) <= Len(t) /\ SubSeq(t, 1, Len(s)) = s

\* C28: unload_banks leaves event_names, asset_id and the listener pose as they
\* were; event_names only grows at its end under every operation; and update
\* still calls the middleware once a load has succeeded, unloaded or not.
C28_UnloadKeepsEngineState ==
  [][/\ op'.name = "unload_banks" =>
          /\ event_names' = event_names
          /\ asset_id' = asset_id
          /\ listener_position' = listener_position
          /\ listener_velocity' = listener_velocity
     /\ IsPrefix(event_names, event_names')
     /\ (op'.name = "update" /\ loaded) =>
          (Len(calls') = 1 /\ calls'[1].fn = "Studio_System_Update")]_vars

\* update has called the middleware after an unload, the names still listed
C28_Witness ==
  /\ op.name = "update"
  /\ loaded
  /\ mw_banks = <<>>
  /\ event_names # <<>>
  /\ asset_id # None
  /\ Len(calls) = 1
  /\ result.kind = "Ok"
\* the paths of a sequence of calls, in order
PathsOf(cs) == [k \in DOMAIN cs |-> cs[k].path]

\* C29: load_bank_files_from_memory gains exactly the paths whose query
\* succeeded, in order; a failed path query adds no entry and no error: when
\* every other call succeeded the load returns Ok and records the asset id.
C29_FailedPathQueryIsSkipped ==
  [][op'.name = LoadOp =>
       LET queries == CallsTo(calls', {"Studio_EventDescription_GetPath"})
           answered == SelectSeq(queries, LAMBDA c : c.status = 0)
           others == SelectSeq(calls', LAMBDA c : c.fn # "Studio_EventDescription_GetPath")
       IN /\ event_names' = event_names \o PathsOf(answered)
          /\ (\A k \in DOMAIN others : others[k].status = 0) =>
               (result'.kind = "Ok" /\ asset_id' = Some(op'.asset_id))]_vars

\* a load returned Ok though the path query of event:/a failed: event:/b is listed
C29_Witness ==
  /\ op.name = LoadOp
  /\ result.kind = "Ok"
  /\ asset_id = Some(op.asset_id)
  /\ \E k \in DOMAIN calls :
       /\ calls[k].fn = "Studio_EventDescription_GetPath"
       /\ calls[k].path = "event:/a"
       /\ calls[k].status # 0
  /\ event_names = <<"event:/b">>
\* C30: when a play_event operation has created the instance and a later step
\* fails, the failed call is the last one made, the error is the result, and the
\* instance is left as it was: not stopped, not marked for release, alive in the
\* middleware, so that the instance count of the event is one higher than before.
C30_FailedPlayLeavesTheInstance ==
  [][(/\ op'.name \in PlayOps
      /\ result'.kind = "Err"
      /\ \E k \in DOMAIN calls' :
           calls'[k].fn = "Studio_EventDescription_CreateInstance" /\ calls'[k].status = 0) =>
       LET new_inst == Len(mw_instances) + 1
           last == calls'[Len(calls')]
       IN /\ last.status # 0
          /\ last.fn \in {"Studio_EventInstance_Set3DAttributes",
                          "Studio_EventInstance_Start", "Studio_EventInstance_Release"}
          /\ \A k \in 1..(Len(calls') - 1) : calls'[k].status = 0
          /\ result'.function = last.fn
          /\ CallsTo(calls', {"Studio_EventInstance_Stop"}) = <<>>
          /\ Len(mw_instances') = new_inst
          /\ mw_instances'[new_inst].valid
          /\ ~mw_instances'[new_inst].released
          /\ instance_count(mw_instances', op'.event_name)
               = instance_count(mw_instances, op'.event_name) + 1]_vars

\* play_event_with_position_velocity failed at start: the instance it created
\* is placed, but neither started nor marked for release
C30_Witness ==
  /\ op.name = "play_event_with_position_velocity"
  /\ result.kind = "Err"
  /\ result.function = "Studio_EventInstance_Start"
  /\ Len(calls) = 4
  /\ Len(mw_instances) = 1
  /\ mw_instances[1].attrs # None
  /\ ~mw_instances[1].started
  /\ ~mw_instances[1].released
  /\ mw_instances[1].valid
====
